---------------------------- MODULE Spec2Model ----------------------------
(***************************************************************************)
(* Model of the adaptive voting controller of vote.py: the vote iteration  *)
(* (perform_vote_iteration), the auxiliary workers (parallel_voting_thread)*)
(* the primary loop of main() with its backoff policy and pool scan, and   *)
(* the journal writer (log_vote_to_json).                                  *)
(*                                                                         *)
(* Every "with <lock>:" block of the source is one atomic action.  Thread 0*)
(* is "Main"; thread i >= 1 is "Parallel-i", which serves slot i (index    *)
(* i-1 of the source's 0-based lists).                                     *)
(*                                                                         *)
(* Floats: lead_backoff_multiplier is held as a multiple of 1/Scale        *)
(* (Scale = 16), which represents 1.0, 1.5, 2.25, 3.375, 5.0625 and 5.0    *)
(* exactly.  Percentages are whole numbers.                                *)
(***************************************************************************)
EXTENDS Integers, Sequences, FiniteSets, TLC

---------------------------------------------------------------------------
(* Bounds of the model *)

\* Spec: no iteration starts once vote_count has reached MaxVotes
MaxVotes == 3

\* SpecSolo: no iteration starts once vote_count has reached MaxSoloVotes
MaxSoloVotes == 10

\* SpecJournal: no entry is appended to a journal of MaxJournalLen entries
MaxJournalLen == 2

\* SpecLive: no iteration starts once vote_count has reached MaxLiveVotes
MaxLiveVotes == 2

\* SpecNames: no iteration starts once vote_count has reached MaxNameVotes
MaxNameVotes == 2

\* SpecLocks: no iteration starts once vote_count has reached MaxLockVotes
MaxLockVotes == 2

\* SpecVerify: no iteration starts once MaxVerifyRounds attempts have been
\* made since the first state
MaxVerifyRounds == 2

\* SpecPool: no iteration starts once MaxPoolRounds attempts have been made
\* since the first state
MaxPoolRounds == 2

\* SpecFirst: no iteration starts once vote_count has reached MaxFirstVotes
MaxFirstVotes == 2

\* SpecWait: no iteration starts once vote_count has reached MaxWaitVotes
MaxWaitVotes == 5

\* SpecTier: attempts made from each first state
MaxTierRounds == 2

\* SpecCrash: attempts made from the first state
MaxCrashRounds == 2

\* SpecSample: the number of records in the verification file
MaxSampleLen == 3

\* SpecObserve: attempts made from the first state
MaxObserveRounds == 1

\* SpecOrder: attempts made from the first state
MaxOrderRounds == 1

\* SpecAudit: no iteration starts once vote_count has reached MaxAuditVotes
MaxAuditVotes == 10

\* SpecLog: the number of threads (Main and the workers) that log at once
LogThreads == 3

---------------------------------------------------------------------------
(* Program constants *)

MAX_BACKOFF_DELAY == 300

\* default of --max-threads
DefaultMaxThreads == 8

\* default of --lead-threshold (15.0)
lead_threshold == 15

\* denominator of the fixed-point representation of lead_backoff_multiplier
Scale == 2 * 8

Min(a, b) == IF a <= b THEN a ELSE b

Max(a, b) == IF a >= b THEN a ELSE b

---------------------------------------------------------------------------
(* Strings as tuples of characters, so that lower() and "in" are computed *)

Lower1(c) ==
    CASE c = "C" -> "c" [] c = "W" -> "w" [] c = "D" -> "d" [] c = "P" -> "p"
      [] c = "U" -> "u" [] c = "T" -> "t" [] c = "L" -> "l" [] c = "E" -> "e"
      [] c = "R" -> "r" [] c = "H" -> "h" [] c = "I" -> "i" [] c = "A" -> "a"
      [] c = "K" -> "k" [] c = "S" -> "s" [] c = "J" -> "j" [] c = "N" -> "n"
      [] OTHER -> c

\* str.lower()
lower(s) == [k \in 1..Len(s) |-> Lower1(s[k])]

\* the substring test "sub in s"
Contains(s, sub) ==
    \E k \in 0..(Len(s) - Len(sub)) :
        \A j \in 1..Len(sub) : s[k + j] = sub[j]

TARGET_ATHLETE == <<"C","u","t","l","e","r"," ","W","h","i","t","a","k","e","r">>

Cutler == <<"c","u","t","l","e","r">>

Whitaker == <<"w","h","i","t","a","k","e","r">>

DylanPapushak == <<"D","y","l","a","n"," ","P","a","p","u","s","h","a","k">>

\* the name test with "or" for the "and" between the two tokens
NameMatchesEitherToken(name) ==
    LET first_place_name == lower(name)
        cutler_name == lower(TARGET_ATHLETE)
    IN  \/ Contains(first_place_name, cutler_name)
        \/ (Contains(first_place_name, Cutler) \/ Contains(first_place_name, Whitaker))

\* the name test of lines 2495-2496 and 2521-2522
NameMatches(name) ==
    LET first_place_name == lower(name)
        cutler_name == lower(TARGET_ATHLETE)
    IN  \/ Contains(first_place_name, cutler_name)
        \/ (Contains(first_place_name, Cutler) /\ Contains(first_place_name, Whitaker))

is_cutler_ahead(results) ==
    IF results = <<>> THEN FALSE ELSE NameMatches(results[1][1])

\* Python's None and a present value v, for values that may be None
None == << >>

Some(v) == <<v>>

\* the lead with ">" for the ">=" of line 2530
get_cutler_lead_percentage_strict(results, threshold) ==
    IF Len(results) < 2 THEN <<None, FALSE>>
    ELSE IF ~NameMatches(results[1][1]) THEN <<None, FALSE>>
    ELSE LET lead_percentage == results[1][2] - results[2][2]
         IN  <<Some(lead_percentage), lead_percentage > threshold>>

\* lines 2501-2532; returns <<lead_percentage, is_above_threshold>>
get_cutler_lead_percentage(results, threshold) ==
    IF Len(results) < 2 THEN <<None, FALSE>>
    ELSE IF ~NameMatches(results[1][1]) THEN <<None, FALSE>>
    ELSE LET lead_percentage == results[1][2] - results[2][2]
         IN  <<Some(lead_percentage), lead_percentage >= threshold>>

---------------------------------------------------------------------------
(* Poll snapshots the result page can yield: lists of <<name, percentage>> *)

SnapLeadHigh == << <<TARGET_ATHLETE, 35>>, <<DylanPapushak, 18>> >>

SnapLeadLow == << <<TARGET_ATHLETE, 28>>, <<DylanPapushak, 24>> >>

SnapAlone == << <<TARGET_ATHLETE, 100>> >>

SnapBehind == << <<DylanPapushak, 40>>, <<TARGET_ATHLETE, 30>> >>

\* an empty list; also stands for results = None (both are falsy in the source)
SnapEmpty == << >>

Snapshots == {SnapLeadHigh, SnapLeadLow, SnapAlone, SnapBehind, SnapEmpty}

\* names the result page may show, written in other ways than TARGET_ATHLETE
\* (test_vote.py:125-137 has "cutler whitaker" and "Cutler Whitaker, sr.")
CutlerUpper == <<"C","U","T","L","E","R"," ","W","H","I","T","A","K","E","R">>

CutlerSenior == <<"c","u","t","l","e","r"," ","w","h","i","t","a","k","e","r",","," ","s","r",".">>

WhitakerCutler == <<"W","h","i","t","a","k","e","r",","," ","C","u","t","l","e","r">>

CutlerJWhitaker == <<"C","u","t","l","e","r"," ","J","."," ","W","h","i","t","a","k","e","r">>

DylanWhitaker == <<"D","y","l","a","n"," ","W","h","i","t","a","k","e","r">>

CutlerPapushak == <<"C","u","t","l","e","r"," ","P","a","p","u","s","h","a","k">>

\* upper case, and a lead equal to lead_threshold
SnapUpperAtThreshold == << <<CutlerUpper, 40>>, <<DylanPapushak, 25>> >>

\* a suffix after the name, and a lead one point under lead_threshold
SnapSeniorUnderThreshold == << <<CutlerSenior, 39>>, <<DylanPapushak, 25>> >>

\* the two tokens in the other order, and three entries
SnapReversedTokens ==
    << <<WhitakerCutler, 50>>, <<DylanPapushak, 20>>, <<CutlerPapushak, 10>> >>

\* the two tokens apart, and a tie for first place
SnapTokensApartTied == << <<CutlerJWhitaker, 30>>, <<DylanPapushak, 30>> >>

\* a first entry with one token only, the target second
SnapOtherWhitaker == << <<DylanWhitaker, 45>>, <<TARGET_ATHLETE, 30>> >>

SnapOtherCutler == << <<CutlerPapushak, 45>>, <<CutlerUpper, 30>> >>

\* upper case and a single entry
SnapUpperAlone == << <<CutlerUpper, 100>> >>

NameSnapshots ==
    Snapshots \cup {SnapUpperAtThreshold, SnapSeniorUnderThreshold, SnapReversedTokens,
                    SnapTokensApartTied, SnapOtherWhitaker, SnapOtherCutler,
                    SnapUpperAlone}

---------------------------------------------------------------------------
(* The journal file (voting_activity.json) and log_vote_to_json *)

VoteTypes == {"standard", "initial_accelerated", "accelerated", "super_accelerated"}

SummaryFields == {"total_votes_submitted", "standard_votes", "initial_accelerated_votes",
                  "accelerated_votes", "super_accelerated_votes", "exponential_backoff_votes"}

ZeroSummary == [f \in SummaryFields |-> 0]

\* dict.get(key, default); a dict is a record, a missing key a missing field
Get(d, key, default) == IF key \in DOMAIN d THEN d[key] ELSE default

TypeField(vote_type) ==
    CASE vote_type = "standard" -> "standard_votes"
      [] vote_type = "initial_accelerated" -> "initial_accelerated_votes"
      [] vote_type = "accelerated" -> "accelerated_votes"
      [] vote_type = "super_accelerated" -> "super_accelerated_votes"
      [] OTHER -> "none"

\* the tally with the tier counted for successful entries only
ContributionOfSuccess(vote) ==
    [f \in SummaryFields |->
        IF f = "total_votes_submitted"
            THEN (IF Get(vote, "success", FALSE) THEN 1 ELSE 0)
        ELSE IF f = "exponential_backoff_votes"
            THEN (IF Get(vote, "exponential_backoff", FALSE) THEN 1 ELSE 0)
        ELSE (IF /\ Get(vote, "success", FALSE)
                 /\ TypeField(Get(vote, "vote_type", "standard")) = f THEN 1 ELSE 0)]

\* the tally with failed entries counted as submitted
ContributionCountingFailures(vote) ==
    [f \in SummaryFields |->
        IF f = "total_votes_submitted" THEN 1
        ELSE IF f = "exponential_backoff_votes"
            THEN (IF Get(vote, "exponential_backoff", FALSE) THEN 1 ELSE 0)
        ELSE (IF TypeField(Get(vote, "vote_type", "standard")) = f THEN 1 ELSE 0)]

\* what one vote entry adds to each summary field (lines 598-612 and 629-643)
Contribution(vote) ==
    [f \in SummaryFields |->
        IF f = "total_votes_submitted"
            THEN (IF Get(vote, "success", FALSE) THEN 1 ELSE 0)
        ELSE IF f = "exponential_backoff_votes"
            THEN (IF Get(vote, "exponential_backoff", FALSE) THEN 1 ELSE 0)
        ELSE (IF TypeField(Get(vote, "vote_type", "standard")) = f THEN 1 ELSE 0)]

\* the loop of lines 597-612 over the first n entries of votes
RECURSIVE SummaryOf(_, _)
SummaryOf(votes, n) ==
    IF n = 0 THEN ZeroSummary
    ELSE LET rest == SummaryOf(votes, n - 1)
             c == Contribution(votes[n])
         IN  [f \in SummaryFields |-> rest[f] + c[f]]

\* The file is [state |-> "absent"], [state |-> "corrupt"], a JSON object
\* [state |-> "ok", ...] whose keys are its other fields, or
\* [state |-> "unwritable"]: a path that can be neither read nor written.
AbsentFile == [state |-> "absent"]

UnwritableFile == [state |-> "unwritable"]

CorruptFile == [state |-> "corrupt"]

\* the journal as read with session_start set anew by every call
LoadJournalNewSession(file, timestamp) ==
    IF file.state # "ok"
        THEN [session_start |-> timestamp, summary |-> ZeroSummary, votes |-> << >>]
    ELSE [session_start |-> timestamp,
          summary |-> Get(file, "summary", ZeroSummary),
          votes |-> Get(file, "votes", << >>)]

\* the journal as read at lines 535-580: an absent or corrupt file gives a new structure
LoadJournal(file, timestamp) ==
    IF file.state # "ok"
        THEN [session_start |-> timestamp, summary |-> ZeroSummary, votes |-> << >>]
    ELSE [session_start |-> Get(file, "session_start", timestamp),
          summary |-> Get(file, "summary", ZeroSummary),
          votes |-> Get(file, "votes", << >>)]

historical_offset(existing_summary, summary_before) ==
    [f \in SummaryFields |-> Max(0, Get(existing_summary, f, 0) - summary_before[f])]

\* the summary recomputed from the entries alone, without historical_offset
final_summary_replayed(existing_summary, summary_before, increment) ==
    [f \in SummaryFields |-> summary_before[f] + increment[f]]

final_summary(existing_summary, summary_before, increment) ==
    LET offset == historical_offset(existing_summary, summary_before)
    IN  [f \in SummaryFields |-> offset[f] + summary_before[f] + increment[f]]

\* the file written at lines 670-671 from the structure data read at lines
\* 535-580: summary recomputed (582-667), entry appended (615)
UpdatedJournal(loaded, vote_entry) ==
    LET existing_summary == loaded.summary
        summary_before == SummaryOf(loaded.votes, Len(loaded.votes))
        increment == Contribution(vote_entry)
    IN  [state |-> "ok",
         session_start |-> loaded.session_start,
         summary |-> final_summary(existing_summary, summary_before, increment),
         votes |-> Append(loaded.votes, vote_entry)]

\* the file after log_vote_to_json(vote_entry); when open(..., 'w') raises, the
\* handler of lines 673-678 swallows the error and the file stays as it was
log_vote_to_json(file, vote_entry) ==
    IF file.state = "unwritable" THEN file
    ELSE UpdatedJournal(LoadJournal(file, vote_entry.timestamp), vote_entry)

\* 1-based position of the first entry naming the target, or None (lines 491-498)
cutler_position(results) ==
    LET hits == {k \in 1..Len(results) :
                    /\ Contains(lower(results[k][1]), Cutler)
                    /\ Contains(lower(results[k][1]), Whitaker)}
    IN  IF hits = {} THEN None ELSE Some(CHOOSE k \in hits : \A j \in hits : k <= j)

---------------------------------------------------------------------------
(* log_vote_verification, lines 680-865.  Python floats are IEEE-754 binary64:
   a number is a sequence of bits, most significant first and without leading
   zeros, counted in units of 2^-scale; every operation rounds its exact result
   to Significand bits, to nearest and on a tie to even. *)

Significand == 53

RECURSIVE PowerOfTwoMod(_, _)
\* 2^k modulo d
PowerOfTwoMod(k, d) ==
    IF k = 0 THEN 1 % d
    ELSE IF k % 2 = 1 THEN (2 * PowerOfTwoMod(k - 1, d)) % d
    ELSE LET half == PowerOfTwoMod(k \div 2, d) IN (half * half) % d

\* what is left of r / d behind its first n bits, in units of 2^-n / d (0 <= r < d)
FractionRemainder(r, d, n) == (r * PowerOfTwoMod(n, d)) % d

\* the first n bits of r / d behind the binary point
BinaryFraction(r, d, n) ==
    [k \in 1..n |-> (2 * FractionRemainder(r, d, k - 1)) \div d]

Reverse(s) == [k \in 1..Len(s) |-> s[Len(s) + 1 - k]]

\* bits + 1
Increment(bits) ==
    LET zeros == {k \in 1..Len(bits) : bits[k] = 0}
    IN  IF zeros = {} THEN <<1>> \o [k \in 1..Len(bits) |-> 0]
        ELSE LET last == CHOOSE k \in zeros : \A j \in zeros : j <= k
             IN  [k \in 1..Len(bits) |->
                     IF k < last THEN bits[k] ELSE IF k = last THEN 1 ELSE 0]

\* bits, followed by something more iff rest, rounded to Significand bits:
\* the bits kept and the number of bits dropped
RoundToSignificand(bits, rest) ==
    IF Len(bits) <= Significand THEN [bits |-> bits, dropped |-> 0]
    ELSE LET kept == SubSeq(bits, 1, Significand)
             guard == bits[Significand + 1]
             sticky == rest \/ \E k \in (Significand + 2)..Len(bits) : bits[k] = 1
             up == guard = 1 /\ (sticky \/ kept[Significand] = 1)
         IN  [bits |-> IF up THEN Increment(kept) ELSE kept,
              dropped |-> Len(bits) - Significand]

\* the float p / 100.0 for 0 < p < 100
Hundredth(p) ==
    LET width == 7 + Significand
        all == BinaryFraction(p, 100, width)
        first == CHOOSE k \in 1..7 : all[k] = 1 /\ \A j \in 1..(k - 1) : all[j] = 0
        rounded == RoundToSignificand(SubSeq(all, first, first + Significand),
                                      FractionRemainder(p, 100, first + Significand) # 0)
    IN  [bits |-> rounded.bits, scale |-> first + Significand - 1]

RECURSIVE CarryBits(_)
\* the bits of c, least significant first
CarryBits(c) == IF c = 0 THEN << >> ELSE <<c % 2>> \o CarryBits(c \div 2)

RECURSIVE TimesWithCarry(_, _, _)
\* bits * t + c for bits given least significant first: as many bits of the
\* result, and what is carried beyond them
TimesWithCarry(bits, t, c) ==
    IF bits = << >> THEN [bits |-> << >>, carry |-> c]
    ELSE IF Len(bits) = 1
        THEN [bits |-> <<((bits[1] * t) + c) % 2>>, carry |-> ((bits[1] * t) + c) \div 2]
    ELSE LET half == Len(bits) \div 2
             low == TimesWithCarry(SubSeq(bits, 1, half), t, c)
             high == TimesWithCarry(SubSeq(bits, half + 1, Len(bits)), t, low.carry)
         IN  [bits |-> low.bits \o high.bits, carry |-> high.carry]

\* bits * t, the bits least significant first
TimesFromLow(bits, t) ==
    LET product == TimesWithCarry(bits, t, 0)
    IN  product.bits \o CarryBits(product.carry)

RECURSIVE BitsValue(_)
BitsValue(bits) ==
    IF bits = << >> THEN 0
    ELSE (2 * BitsValue(SubSeq(bits, 1, Len(bits) - 1))) + bits[Len(bits)]

\* int(t * x) for an integer t >= 1 and a float x below 1: the exact product is
\* rounded to a float, of which int() keeps the integer part
TruncatedProduct(t, x) ==
    LET exact == Reverse(TimesFromLow(Reverse(x.bits), t))
        rounded == RoundToSignificand(exact, FALSE)
        shift == x.scale - rounded.dropped
    IN  IF Len(rounded.bits) <= shift THEN 0
        ELSE BitsValue(SubSeq(rounded.bits, 1, Len(rounded.bits) - shift))

\* line 730: int(total_votes * (cutler_percentage / 100.0)), for a percentage
\* that is a whole number from 0 to 100 (0.0 and 1.0 are exact)
cutler_vote_count(total_votes, cutler_percentage) ==
    IF total_votes = 0 \/ cutler_percentage = 0 THEN 0
    ELSE IF cutler_percentage = 100 THEN total_votes
    ELSE TruncatedProduct(total_votes, Hundredth(cutler_percentage))

\* _current_session_id of this run (lines 3126-3130), and that of an earlier run
_current_session_id == "session"

EarlierSessionId == "earlier session"

\* round(x, 2) for x = num / den with den > 0, in hundredths: the nearest
\* whole number to 100 * num / den, on a tie the even one
round2(num, den) ==
    LET q == (100 * num) \div den
        r == (100 * num) % den
    IN  IF 2 * r < den THEN q
        ELSE IF 2 * r > den THEN q + 1
        ELSE IF q % 2 = 0 THEN q ELSE q + 1

\* the most recent record of any session
previous_record_any_session(records) ==
    IF records = << >> THEN None ELSE Some(records[Len(records)])

\* lines 770-778: the most recent record of this session, searched backwards
previous_record(records) ==
    LET mine == {k \in 1..Len(records) :
                    Get(records[k], "session_id", None) = _current_session_id}
    IN  IF mine = {} THEN None
        ELSE Some(records[CHOOSE k \in mine : \A j \in mine : j <= k])

\* lines 730-757 and 780-800: the record of this call; the percentages are in
\* units of one percent, effectiveness_percentage in hundredths of one percent
verification_record(records, vote_count, total_votes, cutler_percentage, results) ==
    LET cutler_votes == cutler_vote_count(total_votes, cutler_percentage)
        previous == previous_record(records)
        expected_increase ==
            IF previous = None THEN vote_count
            ELSE vote_count - Get(previous[1], "our_vote_count", 0)
        actual_increase ==
            IF previous = None THEN None
            ELSE Some(cutler_votes - Get(previous[1], "cutler_vote_count_calculated", 0))
    IN  [session_id |-> _current_session_id,
         our_vote_count |-> vote_count,
         total_votes_on_server |-> total_votes,
         cutler_percentage |-> cutler_percentage,
         cutler_vote_count_calculated |-> cutler_votes,
         cutler_position |-> cutler_position(results),
         expected_vote_increase |-> expected_increase,
         actual_vote_increase |-> actual_increase,
         effectiveness_percentage |->
             IF previous # None /\ expected_increase > 0
                THEN Some(round2(100 * actual_increase[1], expected_increase))
                ELSE None]

\* the file after log_vote_verification(...), lines 759-812: an absent or
\* corrupt file gives a new list; when the file can be neither read nor
\* written the handler of lines 858-865 swallows the error
log_vote_verification(file, vote_count, total_votes, cutler_percentage, results) ==
    IF file.state = "unwritable" THEN file
    ELSE LET records == IF file.state = "ok"
                           THEN Get(file, "verification_records", << >>) ELSE << >>
         IN  [state |-> "ok",
              verification_records |->
                  Append(records, verification_record(records, vote_count, total_votes,
                                                      cutler_percentage, results))]

\* lines 2760-2765: the percentage of the first entry naming the target, or None
cutler_percentage_of(results) ==
    LET pos == cutler_position(results)
    IN  IF pos = None THEN None ELSE Some(results[pos[1]][2])

---------------------------------------------------------------------------
(* State *)

VARIABLES
    \* module globals (lines 61-122)
    vote_count, consecutive_behind_count, standard_vote_count,
    initial_accelerated_vote_count, accelerated_vote_count,
    super_accelerated_vote_count, lead_backoff_multiplier, shutdown_flag,
    _parallel_active, _force_parallel_mode, _first_vote_completed,
    _last_verification_vote_count,
    \* the journal file
    journal,
    \* locals of main()
    start_thread_count, max_threads, delay_parallel_startup,
    current_behind_count, is_lead_high, wait_range,
    \* per thread: position, and the locals of perform_vote_iteration and its caller
    pc, current_vote_num, success, results, cutler_ahead, vote_type,
    lead_percentage, is_backoff_active, current_behind_for_log,
    \* local of parallel_voting_thread
    current_behind,
    \* _json_log_lock (its holder), and per thread the local data of log_vote_to_json
    _json_log_lock, data,
    \* the file VOTE_VERIFICATION_FILE
    verification,
    \* the holder of each core lock, and per thread the position whose "with"
    \* statements are being run with the lock operations still to come
    lock_holder, lock_op,
    \* per thread inside an iteration: lead_backoff_multiplier as it was when
    \* the iteration began (line 2575)
    backoff_at_start

globals == <<vote_count, consecutive_behind_count, standard_vote_count,
             initial_accelerated_vote_count, accelerated_vote_count,
             super_accelerated_vote_count, lead_backoff_multiplier, shutdown_flag,
             _parallel_active, _force_parallel_mode, _first_vote_completed,
             _last_verification_vote_count>>

main_locals == <<start_thread_count, max_threads, delay_parallel_startup,
                 current_behind_count, is_lead_high, wait_range>>

iter_locals == <<current_vote_num, success, results, cutler_ahead, vote_type,
                 lead_percentage, is_backoff_active, current_behind_for_log>>

log_locals == <<_json_log_lock, data, verification>>

lock_locals == <<lock_holder, lock_op, backoff_at_start>>

vars == <<globals, journal, main_locals, pc, iter_locals, current_behind, log_locals,
          lock_locals>>

counters == <<vote_count, consecutive_behind_count, standard_vote_count,
              initial_accelerated_vote_count, accelerated_vote_count,
              super_accelerated_vote_count>>

tier_counts == <<standard_vote_count, initial_accelerated_vote_count,
                 accelerated_vote_count, super_accelerated_vote_count>>

config == <<_force_parallel_mode, start_thread_count, max_threads>>

\* the three core locks: lines 67, 108 and the lock of the worker pool
CoreLocks == {"_counter_lock", "lead_backoff_lock", "_parallel_voting_lock"}

\* no "with" statement of any position has been run yet
NoLockOp == <<"none", << >> >>

Main == 0

Threads == 0..(max_threads - 1)

\* thread i >= 1 serves slot i
Slots == 1..(max_threads - 1)

ParallelNames == <<"Parallel-1", "Parallel-2", "Parallel-3", "Parallel-4",
                   "Parallel-5", "Parallel-6", "Parallel-7", "Parallel-8">>

\* thread_name of line 2792
thread_id(t) == IF t = Main THEN "Main" ELSE ParallelNames[t]

\* initialize_parallel_threads: threshold of slot i (source index i-1)
_parallel_thresholds == [i \in Slots |-> 20 + ((i - 1) * 10)]

\* is_alive() answering False for every thread
is_alive_never(i) == FALSE

\* Thread.is_alive() of _parallel_threads[i-1]; "unborn" is the None entry.  A
\* thread that has left its loop ("a_exit") is alive until its function returns.
is_alive(i) == pc[i] \notin {"unborn", "a_done"}

\* no seed at startup
initial_behind_count_unseeded(K) == 0

\* the seed taken from the slot after the last one started
initial_behind_count_next_slot(K) ==
    IF K > 1 THEN 20 + (10 * (K - 1)) ELSE 0

\* the positions of perform_vote_iteration after line 2575
InIteration(position) == position \in {"submit", "backoff_read", "log_read", "log"}

\* lines 3104-3114
initial_behind_count(K) ==
    IF K > 1 THEN _parallel_thresholds[K - 1] ELSE 0

NoWait == <<0, 0>>

\* the state main() has built when it enters its loop (lines 3055-3148)
InitFiles(threads, startChoices, files, samples) ==
    /\ max_threads = threads
    /\ start_thread_count \in startChoices
    /\ _force_parallel_mode \in BOOLEAN
    /\ vote_count = 0
    /\ lead_backoff_multiplier = Scale
    /\ consecutive_behind_count = initial_behind_count(start_thread_count)
    /\ standard_vote_count = 0
    /\ accelerated_vote_count = 0
    /\ super_accelerated_vote_count = 0
    /\ initial_accelerated_vote_count = 0
    /\ shutdown_flag = FALSE
    /\ _parallel_active = [i \in Slots |-> FALSE]
    /\ _first_vote_completed = FALSE
    /\ _last_verification_vote_count = 0
    /\ journal \in files
    /\ delay_parallel_startup = (start_thread_count > 1)
    /\ current_behind_count = 0
    /\ is_lead_high = FALSE
    /\ wait_range = NoWait
    /\ pc = [t \in Threads |-> IF t = Main THEN "loop" ELSE "unborn"]
    /\ current_vote_num = [t \in Threads |-> 0]
    /\ success = [t \in Threads |-> FALSE]
    /\ results = [t \in Threads |-> << >>]
    /\ cutler_ahead = [t \in Threads |-> FALSE]
    /\ vote_type = [t \in Threads |-> "standard"]
    /\ lead_percentage = [t \in Threads |-> None]
    /\ is_backoff_active = [t \in Threads |-> FALSE]
    /\ current_behind_for_log = [t \in Threads |-> 0]
    /\ current_behind = [t \in Threads |-> 0]
    /\ _json_log_lock = None
    /\ data = [t \in Threads |-> None]
    /\ verification \in samples
    /\ lock_holder = [l \in CoreLocks |-> None]
    /\ lock_op = [t \in Threads |-> NoLockOp]
    /\ backoff_at_start = [t \in Threads |-> IF InIteration(pc[t])
                                                THEN Some(lead_backoff_multiplier) ELSE None]

\* the same with a verification file that can be neither read nor written
InitWith(threads, startChoices, files) ==
    InitFiles(threads, startChoices, files, {UnwritableFile})

\* Spec: the runs with --max-threads 2 (Main and one auxiliary worker), any
\* --start-threads, with or without --force-parallel.  The journal path is
\* unwritable, so that the journal's content, which no decision of the
\* controller reads, stays out of the state; SpecJournal checks the writer.
Init == InitWith(1 + 1, {1, 2}, {UnwritableFile})

\* SpecSolo: the runs with --max-threads 1 (Main alone), for longer runs
InitSolo == InitWith(1, {1}, {UnwritableFile})

---------------------------------------------------------------------------
(* perform_vote_iteration, run by every thread t *)

\* the increment without _counter_lock: a thread that read vote_count before
\* another thread's increment writes the same value again
IncrementVoteCountUnlocked(t, limit) ==
    /\ pc[t] = "iter"
    /\ vote_count < limit
    /\ vote_count' = IF \E u \in Threads : u # t /\ current_vote_num[u] = vote_count
                         THEN vote_count ELSE vote_count + 1
    /\ current_vote_num' = [current_vote_num EXCEPT ![t] = vote_count']
    /\ backoff_at_start' = [backoff_at_start EXCEPT ![t] = Some(lead_backoff_multiplier)]
    /\ pc' = [pc EXCEPT ![t] = "submit"]
    /\ UNCHANGED <<consecutive_behind_count, tier_counts, lead_backoff_multiplier,
                   shutdown_flag, _parallel_active, _force_parallel_mode,
                   _first_vote_completed, _last_verification_vote_count, journal,
                   main_locals, log_locals, lock_holder, lock_op, success, results,
                   cutler_ahead, vote_type, lead_percentage, is_backoff_active,
                   current_behind_for_log, current_behind>>

\* lines 2578-2581: take the next attempt number under _counter_lock
IncrementVoteCount(t, limit) ==
    /\ pc[t] = "iter"
    /\ vote_count < limit
    /\ vote_count' = vote_count + 1
    /\ current_vote_num' = [current_vote_num EXCEPT ![t] = vote_count']
    /\ backoff_at_start' = [backoff_at_start EXCEPT ![t] = Some(lead_backoff_multiplier)]
    /\ pc' = [pc EXCEPT ![t] = "submit"]
    /\ UNCHANGED <<consecutive_behind_count, tier_counts, lead_backoff_multiplier,
                   shutdown_flag, _parallel_active, _force_parallel_mode,
                   _first_vote_completed, _last_verification_vote_count, journal,
                   main_locals, log_locals, lock_holder, lock_op, success, results,
                   cutler_ahead, vote_type, lead_percentage, is_backoff_active,
                   current_behind_for_log, current_behind>>

\* the tiers with "> 5" for ">= 5"
BehindTierAbove(current) ==
    IF current >= 10 THEN "super_accelerated"
    ELSE IF current > 5 THEN "accelerated"
    ELSE "initial_accelerated"

\* the tier of a not-first iteration, from the count after its increment (lines 2637-2651)
BehindTier(current) ==
    IF current >= 10 THEN "super_accelerated"
    ELSE IF current >= 5 THEN "accelerated"
    ELSE "initial_accelerated"

\* the tier of a failed submission taken as if the count had been incremented
FailedTierIncremented(current) ==
    IF current + 1 >= 10 THEN "super_accelerated"
    ELSE IF current + 1 >= 5 THEN "accelerated"
    ELSE "initial_accelerated"

\* the tier recorded for a failed submission (lines 2690-2698)
FailedTier(current) ==
    IF current >= 10 THEN "super_accelerated"
    ELSE IF current >= 5 THEN "accelerated"
    ELSE IF current >= 1 THEN "initial_accelerated"
    ELSE "standard"

\* the update with a step down, not a reset, when the target is first
UpdatedBehindCountStepDown(count, ahead) == IF ahead THEN Max(count - 1, 0) ELSE count + 1

\* consecutive_behind_count after the update of lines 2626-2635
UpdatedBehindCount(count, ahead) == IF ahead THEN 0 ELSE count + 1

\* the tier counters with the standard one never incremented
BumpBehindOnly(tiers, tier) ==
    <<tiers[1],
      tiers[2] + (IF tier = "initial_accelerated" THEN 1 ELSE 0),
      tiers[3] + (IF tier = "accelerated" THEN 1 ELSE 0),
      tiers[4] + (IF tier = "super_accelerated" THEN 1 ELSE 0)>>

\* the tier counters <<standard, initial, accelerated, super>> after one more of tier
Bump(tiers, tier) ==
    <<tiers[1] + (IF tier = "standard" THEN 1 ELSE 0),
      tiers[2] + (IF tier = "initial_accelerated" THEN 1 ELSE 0),
      tiers[3] + (IF tier = "accelerated" THEN 1 ELSE 0),
      tiers[4] + (IF tier = "super_accelerated" THEN 1 ELSE 0)>>

\* lines 2656-2660
LeadForLog(ahead, r) ==
    IF ahead /\ Len(r) >= 2 THEN Some(r[1][2] - r[2][2]) ELSE None

\* the counter update made for every successful submission, snapshot or not
CountsSnapshotAlways(ok, r) == ok

\* lines 2606 and 2618: the counter update of lines 2626-2654 is reached
CountsSnapshot(ok, r) == ok /\ r # << >>

\* lines 2592-2698: submit_vote_selenium returns ok; on success the result page
\* gives r.  The counters are updated in one block under _counter_lock.  An
\* iteration that does not read the multiplier (line 2704) goes on to line 2718.
Classify(t, ok, r) ==
    LET ahead == ok /\ r # << >> /\ is_cutler_ahead(r)
        count == IF CountsSnapshot(ok, r)
                    THEN UpdatedBehindCount(consecutive_behind_count, ahead)
                    ELSE consecutive_behind_count
        tier == IF ~ok THEN FailedTier(consecutive_behind_count)
                ELSE IF r = << >> \/ ahead THEN "standard"
                ELSE BehindTier(count)
        lead == IF ok THEN LeadForLog(ahead, r) ELSE None
        bumped == IF ok THEN Bump(tier_counts, tier) ELSE tier_counts
    IN  /\ pc[t] = "submit"
        /\ success' = [success EXCEPT ![t] = ok]
        /\ results' = [results EXCEPT ![t] = IF ok THEN r ELSE << >>]
        /\ cutler_ahead' = [cutler_ahead EXCEPT ![t] = ahead]
        /\ consecutive_behind_count' = count
        /\ standard_vote_count' = bumped[1]
        /\ initial_accelerated_vote_count' = bumped[2]
        /\ accelerated_vote_count' = bumped[3]
        /\ super_accelerated_vote_count' = bumped[4]
        /\ vote_type' = [vote_type EXCEPT ![t] = tier]
        /\ lead_percentage' = [lead_percentage EXCEPT ![t] = lead]
        /\ pc' = [pc EXCEPT ![t] = IF ahead /\ lead # None THEN "backoff_read"
                                    ELSE "log_read"]
        /\ UNCHANGED <<vote_count, lead_backoff_multiplier, shutdown_flag,
                       _parallel_active, _force_parallel_mode, _first_vote_completed,
                       _last_verification_vote_count, journal, main_locals, log_locals, lock_locals,
                       current_vote_num, is_backoff_active, current_behind_for_log,
                       current_behind>>

\* the outcomes of one submission: failure, or success with a result page
SubmitVote(t) ==
    \E ok \in BOOLEAN : \E r \in Snapshots :
        /\ (~ok => r = << >>)
        /\ Classify(t, ok, r)

\* line 2712 with ">=" for ">"
BackoffActiveFromOne(multiplier) == multiplier >= Scale

\* line 2712
BackoffActive(multiplier) == multiplier > Scale

\* lines 2703-2712: read the multiplier under lead_backoff_lock
ReadBackoff(t) ==
    /\ pc[t] = "backoff_read"
    /\ is_backoff_active' = [is_backoff_active EXCEPT ![t] = BackoffActive(lead_backoff_multiplier)]
    /\ pc' = [pc EXCEPT ![t] = "log_read"]
    /\ UNCHANGED <<globals, journal, main_locals, log_locals, lock_locals, current_vote_num, success, results,
                   cutler_ahead, vote_type, lead_percentage, current_behind_for_log,
                   current_behind>>

\* lines 2718-2719
ReadBehindForLog(t) ==
    /\ pc[t] = "log_read"
    /\ current_behind_for_log' = [current_behind_for_log EXCEPT ![t] = consecutive_behind_count]
    /\ pc' = [pc EXCEPT ![t] = "log"]
    /\ UNCHANGED <<globals, journal, main_locals, log_locals, lock_locals, current_vote_num, success, results,
                   cutler_ahead, vote_type, lead_percentage, is_backoff_active,
                   current_behind>>

\* the entry with the global vote_count at the time of the call for its number
vote_entry_global_count(t) ==
    LET pos == cutler_position(results[t])
    IN  [vote_number |-> vote_count,
         thread_id |-> thread_id(t),
         timestamp |-> current_vote_num[t],
         success |-> success[t],
         cutler_ahead |-> (IF success[t] THEN cutler_ahead[t] ELSE FALSE),
         cutler_position |-> pos,
         cutler_percentage |-> (IF pos = None THEN None ELSE Some(results[t][pos[1]][2])),
         consecutive_behind_count |-> current_behind_for_log[t],
         vote_type |-> vote_type[t],
         lead_percentage |-> lead_percentage[t],
         exponential_backoff |-> is_backoff_active[t]]

\* the entry of lines 508-522 for the call of lines 2720-2732; the logical
\* timestamp of an entry is its attempt number
vote_entry(t) ==
    LET pos == cutler_position(results[t])
    IN  [vote_number |-> current_vote_num[t],
         thread_id |-> thread_id(t),
         timestamp |-> current_vote_num[t],
         success |-> success[t],
         cutler_ahead |-> (IF success[t] THEN cutler_ahead[t] ELSE FALSE),
         cutler_position |-> pos,
         cutler_percentage |-> (IF pos = None THEN None ELSE Some(results[t][pos[1]][2])),
         consecutive_behind_count |-> current_behind_for_log[t],
         vote_type |-> vote_type[t],
         lead_percentage |-> lead_percentage[t],
         exponential_backoff |-> is_backoff_active[t]]

\* lines 2720-2732 and 532-671: the whole read-modify-write under _json_log_lock.
\* What the iteration and (for a worker) its caller no longer read is cleared.
LogVote(t) ==
    /\ pc[t] = "log"
    /\ journal' = log_vote_to_json(journal, vote_entry(t))
    /\ pc' = [pc EXCEPT ![t] = IF t = Main THEN "verify" ELSE "a_after"]
    /\ current_vote_num' = [current_vote_num EXCEPT ![t] = 0]
    /\ vote_type' = [vote_type EXCEPT ![t] = "standard"]
    /\ lead_percentage' = [lead_percentage EXCEPT ![t] = None]
    /\ is_backoff_active' = [is_backoff_active EXCEPT ![t] = FALSE]
    /\ current_behind_for_log' = [current_behind_for_log EXCEPT ![t] = 0]
    /\ success' = IF t = Main THEN success ELSE [success EXCEPT ![t] = FALSE]
    /\ results' = IF t = Main THEN results ELSE [results EXCEPT ![t] = << >>]
    /\ backoff_at_start' = [backoff_at_start EXCEPT ![t] = None]
    /\ UNCHANGED <<globals, main_locals, log_locals, lock_holder, lock_op, cutler_ahead,
                   current_behind>>

\* the distance between two verifications (line 2750)
VerificationInterval == 500

\* the marker with every count taken for a threshold
VerificationMarkerEvery(count, last) == count

\* the marker after the check of lines 2750-2755
VerificationMarker(count, last) ==
    IF (count = 1 \/ count % 500 = 0) /\ count # last THEN count ELSE last

\* total_votes of extract_voting_results (lines 2340-2356): the page shows no
\* total, or one of these
TotalVotesShown == {None, Some(100), Some(180)}

\* an error of the file handling leaves log_vote_verification whenever the file
\* cannot be written
SamplerRaisesUnwritable(file) == file.state = "unwritable"

\* lines 759 and 858-865: no error of the file handling leaves log_vote_verification
SamplerRaises(file) == FALSE

\* line 2758 and line 2767: the record is written
SamplerRuns(should_verify, ok, r, total_votes) ==
    should_verify /\ ok /\ r # << >> /\ total_votes # None /\ cutler_percentage_of(r) # None

\* lines 2739-2777 (Main only): the marker check under _counter_lock and the
\* call of log_vote_verification; then perform_vote_iteration returns to line
\* 3164
Verify ==
    /\ pc[Main] = "verify"
    /\ _first_vote_completed' = TRUE
    /\ _last_verification_vote_count' =
          VerificationMarker(vote_count, _last_verification_vote_count)
    /\ \E total_votes \in TotalVotesShown :
          LET should_verify == _last_verification_vote_count' # _last_verification_vote_count
              runs == SamplerRuns(should_verify, success[Main], results[Main], total_votes)
          IN  /\ verification' =
                    IF runs THEN log_vote_verification(verification, vote_count,
                                                       total_votes[1],
                                                       cutler_percentage_of(results[Main])[1],
                                                       results[Main])
                    ELSE verification
              /\ pc' = [pc EXCEPT ![Main] = IF runs /\ SamplerRaises(verification)
                                               THEN "finally" ELSE "m_delay"]
    /\ UNCHANGED <<counters, lead_backoff_multiplier, shutdown_flag, _parallel_active,
                   _force_parallel_mode, journal, main_locals, _json_log_lock, data,
                   lock_locals, iter_locals, current_behind>>

---------------------------------------------------------------------------
(* parallel_voting_thread(i - 1), lines 2798-2842 *)

\* the worker's loop as "while True": only the check of the slot ends it
AuxLoopCheckWithoutFlag(i) ==
    /\ pc[i] = "a_loop"
    /\ pc' = [pc EXCEPT ![i] = IF ~_parallel_active[i] THEN "a_exit" ELSE "a_read"]
    /\ UNCHANGED <<globals, journal, main_locals, log_locals, lock_locals, iter_locals, current_behind>>

\* the loop test without the check of the slot (lines 2800-2803)
AuxLoopCheckFlagOnly(i) ==
    /\ pc[i] = "a_loop"
    /\ pc' = [pc EXCEPT ![i] = IF shutdown_flag THEN "a_exit" ELSE "a_read"]
    /\ UNCHANGED <<globals, journal, main_locals, log_locals, lock_locals, iter_locals, current_behind>>

\* line 2798 and lines 2800-2803: the loop test and the check of the slot
AuxLoopCheck(i) ==
    /\ pc[i] = "a_loop"
    /\ pc' = [pc EXCEPT ![i] = IF shutdown_flag \/ ~_parallel_active[i]
                                THEN "a_exit" ELSE "a_read"]
    /\ UNCHANGED <<globals, journal, main_locals, log_locals, lock_locals, iter_locals, current_behind>>

\* lines 2806-2807
AuxReadBehind(i) ==
    /\ pc[i] = "a_read"
    /\ current_behind' = [current_behind EXCEPT ![i] = consecutive_behind_count]
    /\ pc' = [pc EXCEPT ![i] = "a_check"]
    /\ UNCHANGED <<globals, journal, main_locals, log_locals, lock_locals, iter_locals>>

\* whether the worker of a slot with this threshold stops on the count it read (line 2810)
AuxBelowThreshold(current, threshold, force) == current < threshold /\ ~force

\* lines 2810-2818
AuxCheckThreshold(i) ==
    /\ pc[i] = "a_check"
    /\ IF AuxBelowThreshold(current_behind[i], _parallel_thresholds[i], _force_parallel_mode)
          THEN /\ _parallel_active' = [_parallel_active EXCEPT ![i] = FALSE]
               /\ pc' = [pc EXCEPT ![i] = "a_exit"]
          ELSE /\ UNCHANGED _parallel_active
               /\ pc' = [pc EXCEPT ![i] = "iter"]
    /\ current_behind' = [current_behind EXCEPT ![i] = 0]
    /\ UNCHANGED <<counters, lead_backoff_multiplier, shutdown_flag,
                   _force_parallel_mode, _first_vote_completed,
                   _last_verification_vote_count, journal, main_locals, log_locals, lock_locals, iter_locals>>

\* line 2821 without its test of _force_parallel_mode
AuxStopsWhenAheadForced(ahead, force) == ahead

\* whether the worker stops after its own iteration (line 2821)
AuxStopsWhenAhead(ahead, force) == ahead /\ ~force

\* lines 2821-2829, after perform_vote_iteration has returned; with the
\* shutdown flag set the sleep is skipped and the loop test comes next
AuxAfterIteration(i) ==
    /\ pc[i] = "a_after"
    /\ IF AuxStopsWhenAhead(cutler_ahead[i], _force_parallel_mode)
          THEN /\ _parallel_active' = [_parallel_active EXCEPT ![i] = FALSE]
               /\ pc' = [pc EXCEPT ![i] = "a_exit"]
          ELSE /\ UNCHANGED _parallel_active
               /\ pc' = [pc EXCEPT ![i] = IF shutdown_flag THEN "a_loop" ELSE "a_sleep"]
    /\ cutler_ahead' = [cutler_ahead EXCEPT ![i] = FALSE]
    /\ UNCHANGED <<counters, lead_backoff_multiplier, shutdown_flag,
                   _force_parallel_mode, _first_vote_completed,
                   _last_verification_vote_count, journal, main_locals, log_locals, lock_locals,
                   current_vote_num, success, results, vote_type, lead_percentage,
                   is_backoff_active, current_behind_for_log, current_behind>>

\* line 2830: the range a worker draws its wait from
AuxWaitRange == <<3, 10>>

\* lines 2833-2840: the sleep in 1-second slices ends (time over, shutdown or
\* slot inactive) and the loop test comes next
AuxSleep(i) ==
    /\ pc[i] = "a_sleep"
    /\ pc' = [pc EXCEPT ![i] = "a_loop"]
    /\ UNCHANGED <<globals, journal, main_locals, log_locals, lock_locals, iter_locals, current_behind>>

\* line 2842 and the return of parallel_voting_thread: the thread, which was
\* alive since it left its loop, ends
AuxExit(i) ==
    /\ pc[i] = "a_exit"
    /\ pc' = [pc EXCEPT ![i] = "a_done"]
    /\ UNCHANGED <<globals, journal, main_locals, log_locals, lock_locals, iter_locals,
                   current_behind>>

---------------------------------------------------------------------------
(* main(): the primary loop, lines 3150-3284, and its exit, lines 3286-3335 *)

\* the loop body with the pool scan ahead of perform_vote_iteration
MainLoopCheckScansFirst ==
    /\ pc[Main] = "loop"
    /\ pc' = [pc EXCEPT ![Main] = IF shutdown_flag THEN "finally"
                                  ELSE IF _first_vote_completed THEN "iter"
                                  ELSE "m_scan_read"]
    /\ UNCHANGED <<globals, journal, main_locals, log_locals, lock_locals, iter_locals, current_behind>>

\* line 3150
MainLoopCheck ==
    /\ pc[Main] = "loop"
    /\ pc' = [pc EXCEPT ![Main] = IF shutdown_flag THEN "finally" ELSE "iter"]
    /\ UNCHANGED <<globals, journal, main_locals, log_locals, lock_locals, iter_locals, current_behind>>

\* lines 3164-3177: the deferred start of the workers asked for by --start-threads
DelayedStartup ==
    /\ pc[Main] = "m_delay"
    /\ IF delay_parallel_startup /\ _first_vote_completed
          THEN /\ delay_parallel_startup' = FALSE
               /\ _parallel_active' =
                     [i \in Slots |-> IF i <= start_thread_count - 1
                                        THEN TRUE ELSE _parallel_active[i]]
               /\ pc' = [t \in Threads |->
                            IF t = Main THEN "m_backoff"
                            ELSE IF t <= start_thread_count - 1 THEN "a_loop"
                            ELSE pc[t]]
          ELSE /\ UNCHANGED <<delay_parallel_startup, _parallel_active>>
               /\ pc' = [pc EXCEPT ![Main] = "m_backoff"]
    /\ UNCHANGED <<counters, lead_backoff_multiplier, shutdown_flag,
                   _force_parallel_mode, _first_vote_completed,
                   _last_verification_vote_count, journal, start_thread_count,
                   max_threads, log_locals, lock_locals, current_behind_count, is_lead_high, wait_range,
                   iter_locals, current_behind>>

\* MAX_BACKOFF_DELAY / 60.0
BackoffCap == (MAX_BACKOFF_DELAY * Scale) \div 60

\* the update without the min(..., MAX_BACKOFF_DELAY / 60.0) of line 3191
NextBackoffUncapped(multiplier, lead_high) ==
    IF lead_high THEN (multiplier * 3) \div 2
    ELSE IF multiplier > Scale THEN Scale
    ELSE multiplier

\* the update with a factor of 2.0 for the 1.5 of line 3189
NextBackoffDoubling(multiplier, lead_high) ==
    IF lead_high THEN Min(multiplier * 2, BackoffCap)
    ELSE IF multiplier > Scale THEN Scale
    ELSE multiplier

\* lines 3187-3196: the multiplier after the update under lead_backoff_lock
NextBackoff(multiplier, lead_high) ==
    IF lead_high THEN Min((multiplier * 3) \div 2, BackoffCap)
    ELSE IF multiplier > Scale THEN Scale
    ELSE multiplier

\* line 3199 with a format that accepts None
BackoffResetNeverRaises(multiplier, lead, lead_high) == FALSE

\* line 3199 formats lead_percentage with ":.2f", which raises TypeError for None
BackoffResetRaises(multiplier, lead, lead_high) ==
    ~lead_high /\ multiplier > Scale /\ lead = None

\* lines 3180-3199 with "if results" for "if results and cutler_ahead"
BackoffUpdateAnySnapshot ==
    /\ pc[Main] = "m_backoff"
    /\ IF results[Main] # << >>
          THEN LET lead == get_cutler_lead_percentage(results[Main], lead_threshold)
               IN  /\ is_lead_high' = lead[2]
                   /\ lead_backoff_multiplier' = NextBackoff(lead_backoff_multiplier, lead[2])
                   /\ pc' = [pc EXCEPT ![Main] =
                                IF BackoffResetRaises(lead_backoff_multiplier, lead[1], lead[2])
                                   THEN "finally" ELSE "m_scan_read"]
          ELSE /\ is_lead_high' = FALSE
               /\ UNCHANGED lead_backoff_multiplier
               /\ pc' = [pc EXCEPT ![Main] = "m_scan_read"]
    /\ UNCHANGED <<counters, shutdown_flag, _parallel_active, _force_parallel_mode,
                   _first_vote_completed, _last_verification_vote_count, journal,
                   start_thread_count, max_threads, log_locals, lock_locals, delay_parallel_startup,
                   current_behind_count, wait_range, iter_locals, current_behind>>

\* lines 3180-3199; an exception leaves the loop for the handlers of lines 3288-3292
BackoffUpdate ==
    /\ pc[Main] = "m_backoff"
    /\ IF results[Main] # << >> /\ cutler_ahead[Main]
          THEN LET lead == get_cutler_lead_percentage(results[Main], lead_threshold)
               IN  /\ is_lead_high' = lead[2]
                   /\ lead_backoff_multiplier' = NextBackoff(lead_backoff_multiplier, lead[2])
                   /\ pc' = [pc EXCEPT ![Main] =
                                IF BackoffResetRaises(lead_backoff_multiplier, lead[1], lead[2])
                                   THEN "finally" ELSE "m_scan_read"]
          ELSE /\ is_lead_high' = FALSE
               /\ UNCHANGED lead_backoff_multiplier
               /\ pc' = [pc EXCEPT ![Main] = "m_scan_read"]
    /\ UNCHANGED <<counters, shutdown_flag, _parallel_active, _force_parallel_mode,
                   _first_vote_completed, _last_verification_vote_count, journal,
                   start_thread_count, max_threads, log_locals, lock_locals, delay_parallel_startup,
                   current_behind_count, wait_range, iter_locals, current_behind>>

\* lines 3202-3203
ReadBehindForScan ==
    /\ pc[Main] = "m_scan_read"
    /\ current_behind_count' = consecutive_behind_count
    /\ pc' = [pc EXCEPT ![Main] = "m_scan"]
    /\ UNCHANGED <<globals, journal, start_thread_count, max_threads, log_locals, lock_locals,
                   delay_parallel_startup, is_lead_high, wait_range, iter_locals,
                   current_behind>>

\* line 3213 with ">" for ">="
ScanStartsAbove(count, threshold, active) == count > threshold /\ ~active

\* line 3213: the scan starts the slot
ScanStarts(count, threshold, active) == count >= threshold /\ ~active

\* the scan without the branch of line 3232
ScanStopsOnlyWhenAhead(count, threshold, active, ahead, force) ==
    ahead /\ active /\ ~force

\* lines 3228 and 3232: the scan stops the slot
ScanStops(count, threshold, active, ahead, force) ==
    \/ (ahead /\ active /\ ~force)
    \/ (count < threshold /\ active /\ ~force)

\* the loop body with the target-first stop tested before the start
ScannedActiveStopFirst(count, threshold, active, ahead, force) ==
    IF ahead /\ ~force THEN FALSE
    ELSE IF ScanStarts(count, threshold, active) THEN TRUE
    ELSE IF ScanStops(count, threshold, active, ahead, force) THEN FALSE
    ELSE active

\* the loop body without its two stopping branches
ScannedActiveNeverStopped(count, threshold, active, ahead, force) ==
    IF ScanStarts(count, threshold, active) THEN TRUE ELSE active

\* _parallel_active[i-1] after the loop body of lines 3209-3233
ScannedActive(count, threshold, active, ahead, force) ==
    IF ScanStarts(count, threshold, active) THEN TRUE
    ELSE IF ScanStops(count, threshold, active, ahead, force) THEN FALSE
    ELSE active

\* lines 3206-3237, under _parallel_voting_lock; a thread is created for a
\* started slot only if the slot has no live thread (line 3215)
PoolScan ==
    /\ pc[Main] = "m_scan"
    /\ _parallel_active' =
          [i \in Slots |-> ScannedActive(current_behind_count, _parallel_thresholds[i],
                                         _parallel_active[i], cutler_ahead[Main],
                                         _force_parallel_mode)]
    /\ pc' = [t \in Threads |->
                 IF t = Main THEN (IF shutdown_flag THEN "loop" ELSE "m_wait")
                 ELSE IF /\ ScanStarts(current_behind_count, _parallel_thresholds[t],
                                       _parallel_active[t])
                         /\ ~is_alive(t)
                      THEN "a_loop"
                 ELSE pc[t]]
    /\ UNCHANGED <<counters, lead_backoff_multiplier, shutdown_flag,
                   _force_parallel_mode, _first_vote_completed,
                   _last_verification_vote_count, journal, main_locals, log_locals, lock_locals, iter_locals,
                   current_behind>>

\* the ranges with "> 5" for ">= 5"
WaitRangeAbove(has_results, ahead, count) ==
    IF has_results /\ ~ahead
        THEN IF count >= 10 THEN <<3, 10>>
             ELSE IF count > 5 THEN <<7, 16>>
             ELSE <<14, 37>>
    ELSE <<53, 67>>

\* the ranges chosen from the count alone, 0 for the standard one
WaitRangeOfCount(has_results, ahead, count) ==
    IF count >= 10 THEN <<3, 10>>
    ELSE IF count >= 5 THEN <<7, 16>>
    ELSE IF count >= 1 THEN <<14, 37>>
    ELSE <<53, 67>>

\* the range random.randint draws the wait from (lines 3245-3267)
WaitRange(has_results, ahead, count) ==
    IF has_results /\ ~ahead
        THEN IF count >= 10 THEN <<3, 10>>
             ELSE IF count >= 5 THEN <<7, 16>>
             ELSE <<14, 37>>
    ELSE <<53, 67>>

\* round(), to the nearest integer and from a half to the even one, of n / Scale
Round(n) ==
    LET q == n \div Scale
        r == n % Scale
    IN  IF (2 * r) < Scale THEN q
        ELSE IF (2 * r) > Scale THEN q + 1
        ELSE IF q % 2 = 0 THEN q ELSE q + 1

\* the tier named in the status message of a wait (lines 3248-3275) and in
\* the comment of line 2828
RangeTier(range) ==
    IF range = <<3, 10>> THEN "super_accelerated"
    ELSE IF range = <<7, 16>> THEN "accelerated"
    ELSE IF range = <<14, 37>> THEN "initial_accelerated"
    ELSE "standard"

\* lines 3269-3275 with round() for int()
wait_time_rounded(base_wait_time, current_backoff, lead_high) ==
    IF lead_high /\ current_backoff > Scale
        THEN Min(Round(base_wait_time * current_backoff), MAX_BACKOFF_DELAY)
    ELSE base_wait_time

\* lines 3269-3275: the wait of the standard tier; int() drops the fraction
wait_time(base_wait_time, current_backoff, lead_high) ==
    IF lead_high /\ current_backoff > Scale
        THEN Min((base_wait_time * current_backoff) \div Scale, MAX_BACKOFF_DELAY)
    ELSE base_wait_time

\* random.randint(lo, hi) as the intervals the draw is known to lie in: every
\* value on its own, or lo..hi as a whole with the draw left open
randint(lo, hi, each) ==
    IF each THEN {<<base, base>> : base \in lo..hi} ELSE {<<lo, hi>>}

\* lines 3238-3277: read the count under _counter_lock, then the multiplier,
\* which only this thread writes, and choose the wait; the multiplier counts
\* in the standard tier only.  The values of the iteration are not read after
\* this.
ComputeWaitDrawing(each) ==
    LET range == WaitRange(results[Main] # << >>, cutler_ahead[Main],
                           consecutive_behind_count)
        standard == ~(results[Main] # << >> /\ ~cutler_ahead[Main])
    IN  /\ pc[Main] = "m_wait"
        /\ \E base \in randint(range[1], range[2], each) :
              wait_range' =
                 IF standard
                    THEN <<wait_time(base[1], lead_backoff_multiplier, is_lead_high),
                           wait_time(base[2], lead_backoff_multiplier, is_lead_high)>>
                 ELSE base
        /\ pc' = [pc EXCEPT ![Main] = "m_sleep"]
        /\ current_behind_count' = 0
        /\ is_lead_high' = FALSE
        /\ success' = [success EXCEPT ![Main] = FALSE]
        /\ results' = [results EXCEPT ![Main] = << >>]
        /\ cutler_ahead' = [cutler_ahead EXCEPT ![Main] = FALSE]
        /\ UNCHANGED <<globals, journal, start_thread_count, max_threads, log_locals,
                       lock_locals, delay_parallel_startup, current_vote_num, vote_type,
                       lead_percentage, is_backoff_active, current_behind_for_log,
                       current_behind>>

\* the wait with the draw left open
ComputeWait == ComputeWaitDrawing(FALSE)

\* lines 3281-3284: the sleep in 1-second slices ends and the loop test comes next
MainSleep ==
    /\ pc[Main] = "m_sleep"
    /\ pc' = [pc EXCEPT ![Main] = "loop"]
    /\ wait_range' = NoWait
    /\ UNCHANGED <<globals, journal, start_thread_count, max_threads, log_locals, lock_locals,
                   delay_parallel_startup, current_behind_count, is_lead_high,
                   iter_locals, current_behind>>

\* signal_handler (lines 2549-2552), at any moment before main() has left its loop
signal_handler ==
    /\ ~shutdown_flag
    /\ pc[Main] \notin {"finally", "join", "stats", "done"}
    /\ shutdown_flag' = TRUE
    /\ UNCHANGED <<counters, lead_backoff_multiplier, _parallel_active,
                   _force_parallel_mode, _first_vote_completed,
                   _last_verification_vote_count, journal, main_locals, log_locals, lock_locals, pc,
                   iter_locals, current_behind>>

\* the finally block without the loop of lines 3300-3302
StopNoSlots ==
    /\ pc[Main] = "finally"
    /\ pc' = [pc EXCEPT ![Main] = "join"]
    /\ UNCHANGED <<globals, journal, main_locals, log_locals, lock_locals, iter_locals, current_behind>>

\* lines 3300-3302
StopAllSlots ==
    /\ pc[Main] = "finally"
    /\ _parallel_active' = [i \in Slots |-> FALSE]
    /\ pc' = [pc EXCEPT ![Main] = "join"]
    /\ UNCHANGED <<counters, lead_backoff_multiplier, shutdown_flag,
                   _force_parallel_mode, _first_vote_completed,
                   _last_verification_vote_count, journal, main_locals, log_locals, lock_locals, iter_locals,
                   current_behind>>

\* lines 3313-3315: join(timeout=5) returns when the threads have ended or time is up
JoinThreads ==
    /\ pc[Main] = "join"
    /\ pc' = [pc EXCEPT ![Main] = "stats"]
    /\ UNCHANGED <<globals, journal, main_locals, log_locals, lock_locals, iter_locals, current_behind>>

\* lines 3318-3335: the final statistics are read and main() returns
FinalStatistics ==
    /\ pc[Main] = "stats"
    /\ pc' = [pc EXCEPT ![Main] = "done"]
    /\ UNCHANGED <<globals, journal, main_locals, log_locals, lock_locals, iter_locals, current_behind>>

---------------------------------------------------------------------------
(* Specifications *)

\* the workers are daemon threads: they run only until main() has returned
Running == pc[Main] # "done"

Next ==
    \/ \E t \in Threads : Running /\ IncrementVoteCount(t, MaxVotes)
    \/ \E t \in Threads : Running /\ SubmitVote(t)
    \/ \E t \in Threads : Running /\ ReadBackoff(t)
    \/ \E t \in Threads : Running /\ ReadBehindForLog(t)
    \/ \E t \in Threads : Running /\ LogVote(t)
    \/ \E i \in Slots : Running /\ AuxLoopCheck(i)
    \/ \E i \in Slots : Running /\ AuxReadBehind(i)
    \/ \E i \in Slots : Running /\ AuxCheckThreshold(i)
    \/ \E i \in Slots : Running /\ AuxAfterIteration(i)
    \/ \E i \in Slots : Running /\ AuxSleep(i)
    \/ \E i \in Slots : Running /\ AuxExit(i)
    \/ Verify
    \/ MainLoopCheck
    \/ DelayedStartup
    \/ BackoffUpdate
    \/ ReadBehindForScan
    \/ PoolScan
    \/ ComputeWait
    \/ MainSleep
    \/ signal_handler
    \/ StopAllSlots
    \/ JoinThreads
    \/ FinalStatistics

Spec == Init /\ [][Next]_vars

NextSolo ==
    \/ IncrementVoteCount(Main, MaxSoloVotes)
    \/ SubmitVote(Main)
    \/ ReadBackoff(Main)
    \/ ReadBehindForLog(Main)
    \/ LogVote(Main)
    \/ Verify
    \/ MainLoopCheck
    \/ DelayedStartup
    \/ BackoffUpdate
    \/ ReadBehindForScan
    \/ PoolScan
    \/ ComputeWait
    \/ MainSleep
    \/ signal_handler
    \/ StopAllSlots
    \/ JoinThreads
    \/ FinalStatistics

SpecSolo == InitSolo /\ [][NextSolo]_vars

---------------------------------------------------------------------------
(* SpecScan: the pool scan over the seven slots of the default --max-threads 8 *)

\* the counts around every threshold (threshold - 1, threshold, and 81), and 0
ScanCounts == {0} \cup {19 + (10 * k) : k \in 0..6} \cup {20 + (10 * k) : k \in 0..6}
                  \cup {81}

\* tier counters after n not-first iterations in a row from a count of 0
BehindRunTiers(n) == <<Min(n, 4), Min(Max(n - 4, 0), 5), Max(n - 9, 0)>>

\* A run that has reached the read of line 3203: Main has completed an
\* iteration (target first or not), the count stands at any of ScanCounts after
\* that many not-first iterations, and every slot is inactive with no thread,
\* inactive with a thread that has not yet ended, or active with its thread.
\* With --force-parallel the active slots are the first k, for they never stop.
InitScan ==
    /\ max_threads = DefaultMaxThreads
    /\ start_thread_count = 1
    /\ _force_parallel_mode \in BOOLEAN
    /\ consecutive_behind_count \in ScanCounts
    /\ cutler_ahead \in {[t \in Threads |-> t = Main /\ b] : b \in BOOLEAN}
    /\ success = [t \in Threads |-> t = Main]
    /\ results = [t \in Threads |->
                     IF t # Main THEN << >>
                     ELSE IF cutler_ahead[Main] THEN SnapLeadHigh ELSE SnapBehind]
    /\ standard_vote_count = (IF cutler_ahead[Main] THEN 1 ELSE 0)
    /\ initial_accelerated_vote_count = BehindRunTiers(consecutive_behind_count)[1]
    /\ accelerated_vote_count = BehindRunTiers(consecutive_behind_count)[2]
    /\ super_accelerated_vote_count = BehindRunTiers(consecutive_behind_count)[3]
    /\ vote_count = standard_vote_count + consecutive_behind_count
    /\ vote_count >= 1
    /\ lead_backoff_multiplier = NextBackoff(Scale, cutler_ahead[Main])
    /\ is_lead_high = cutler_ahead[Main]
    /\ shutdown_flag = FALSE
    /\ _parallel_active \in [Slots -> BOOLEAN]
    /\ _force_parallel_mode =>
          \A i \in Slots : \A j \in Slots : (i < j /\ _parallel_active[j]) => _parallel_active[i]
    /\ pc \in [Threads -> {"m_scan_read", "unborn", "a_sleep"}]
    /\ pc[Main] = "m_scan_read"
    /\ \A i \in Slots : /\ pc[i] # "m_scan_read"
                        /\ _parallel_active[i] => pc[i] = "a_sleep"
                        /\ _force_parallel_mode /\ ~_parallel_active[i] => pc[i] = "unborn"
    /\ _first_vote_completed = TRUE
    /\ _last_verification_vote_count = 1
    /\ journal = UnwritableFile
    /\ delay_parallel_startup = FALSE
    /\ current_behind_count = 0
    /\ wait_range = NoWait
    /\ current_vote_num = [t \in Threads |-> 0]
    /\ vote_type = [t \in Threads |-> "standard"]
    /\ lead_percentage = [t \in Threads |-> None]
    /\ is_backoff_active = [t \in Threads |-> FALSE]
    /\ current_behind_for_log = [t \in Threads |-> 0]
    /\ current_behind = [t \in Threads |-> 0]
    /\ _json_log_lock = None
    /\ data = [t \in Threads |-> None]
    /\ verification = UnwritableFile
    /\ lock_holder = [l \in CoreLocks |-> None]
    /\ lock_op = [t \in Threads |-> NoLockOp]
    /\ backoff_at_start = [t \in Threads |-> IF InIteration(pc[t])
                                                THEN Some(lead_backoff_multiplier) ELSE None]

NextScan ==
    \/ ReadBehindForScan
    \/ PoolScan

SpecScan == InitScan /\ [][NextScan]_vars

---------------------------------------------------------------------------
(* SpecJournal: log_vote_to_json on journals that exist before the run *)

\* the summary block of the journal of test_log_vote_to_json_preserves_historical_totals
HistoricalSummary ==
    [total_votes_submitted |-> 1000, standard_votes |-> 800,
     initial_accelerated_votes |-> 100, accelerated_votes |-> 50,
     super_accelerated_votes |-> 50, exponential_backoff_votes |-> 10]

\* a summary block of the old format, without exponential_backoff_votes
OldFormatSummary ==
    [total_votes_submitted |-> 3, standard_votes |-> 1,
     initial_accelerated_votes |-> 0, accelerated_votes |-> 2,
     super_accelerated_votes |-> 0]

Summaries == {ZeroSummary, HistoricalSummary, OldFormatSummary}

\* the entry log_vote_to_json builds from its arguments (lines 508-522)
EntryOf(n, ok, tier, backoff) ==
    [vote_number |-> n, thread_id |-> "Main", timestamp |-> n, success |-> ok,
     cutler_ahead |-> FALSE, cutler_position |-> None, cutler_percentage |-> None,
     consecutive_behind_count |-> 0, vote_type |-> tier, lead_percentage |-> None,
     exponential_backoff |-> backoff]

WrittenEntries(n) ==
    {EntryOf(n, ok, tier, backoff) : ok \in BOOLEAN, tier \in VoteTypes, backoff \in BOOLEAN}

\* entries put into the file by hand, as in the tests: keys may be missing
HandEntries ==
    {[vote_number |-> 1, thread_id |-> "Main", success |-> TRUE, vote_type |-> "standard"],
     [vote_number |-> 1, thread_id |-> "Main", success |-> FALSE]}

JournalFiles ==
    {AbsentFile, CorruptFile}
    \cup {[state |-> "ok", session_start |-> 0, summary |-> sm, votes |-> vs] :
            sm \in Summaries,
            vs \in {<< >>} \cup {<<e>> : e \in WrittenEntries(1) \cup HandEntries}}
    \cup {[state |-> "ok", votes |-> <<e>>] : e \in HandEntries}

InitJournal == InitWith(1, {1}, JournalFiles)

JournalLen == IF journal.state = "ok" THEN Len(Get(journal, "votes", << >>)) ELSE 0

\* one call log_vote_to_json(...), whose arguments make up vote_entry
WriteJournal ==
    /\ JournalLen < MaxJournalLen
    /\ \E e \in WrittenEntries(JournalLen + 1) : journal' = log_vote_to_json(journal, e)
    /\ UNCHANGED <<globals, main_locals, log_locals, lock_locals, pc, iter_locals, current_behind>>

NextJournal == WriteJournal

SpecJournal == InitJournal /\ [][NextJournal]_vars

---------------------------------------------------------------------------
(* SpecLog: log_vote_to_json step by step, called by all threads at once *)

\* line 532 with the lock not held
JsonLockIgnored(lock) == TRUE

\* "with _json_log_lock" (line 532) can be entered
JsonLockFree(lock) == lock = None

\* line 532: the calling thread takes _json_log_lock
JsonAcquire(t) ==
    /\ pc[t] = "log"
    /\ JsonLockFree(_json_log_lock)
    /\ _json_log_lock' = Some(t)
    /\ pc' = [pc EXCEPT ![t] = "j_read"]
    /\ UNCHANGED <<globals, journal, main_locals, iter_locals, current_behind, data,
                   verification, lock_locals>>

\* lines 535-580: the file is read into data
JsonRead(t) ==
    /\ pc[t] = "j_read"
    /\ data' = [data EXCEPT ![t] = Some(LoadJournal(journal, vote_entry(t).timestamp))]
    /\ pc' = [pc EXCEPT ![t] = "j_write"]
    /\ UNCHANGED <<globals, journal, main_locals, iter_locals, current_behind,
                   _json_log_lock, verification, lock_locals>>

\* lines 582-671: summary and entry list are updated in data, the file is
\* written and the lock released; the call returns to line 2738
JsonWrite(t) ==
    /\ pc[t] = "j_write"
    /\ journal' = UpdatedJournal(data[t][1], vote_entry(t))
    /\ data' = [data EXCEPT ![t] = None]
    /\ _json_log_lock' = None
    /\ pc' = [pc EXCEPT ![t] = IF t = Main THEN "verify" ELSE "a_after"]
    /\ UNCHANGED <<globals, main_locals, iter_locals, current_behind, verification,
                   lock_locals>>

\* count and first journal entry of a run with --start-threads LogThreads whose
\* first iteration found the target second
LogSeed == 20 + (10 * (LogThreads - 2))

LogFirstEntry ==
    [vote_number |-> 1, thread_id |-> "Main", timestamp |-> 1, success |-> TRUE,
     cutler_ahead |-> FALSE, cutler_position |-> Some(2), cutler_percentage |-> Some(30),
     consecutive_behind_count |-> LogSeed + 1, vote_type |-> "super_accelerated",
     lead_percentage |-> None, exponential_backoff |-> FALSE]

\* A run with --start-threads = --max-threads = LogThreads.  Main's first
\* iteration found the target second and was logged to a new journal; the
\* workers were started; now every thread t has taken attempt number 2 + t and
\* its submission has failed or has given an empty result page, and all are
\* about to call log_vote_to_json (line 2720).
InitLog ==
    /\ max_threads = LogThreads
    /\ start_thread_count = LogThreads
    /\ _force_parallel_mode \in BOOLEAN
    /\ vote_count = 1 + LogThreads
    /\ lead_backoff_multiplier = Scale
    /\ consecutive_behind_count = LogSeed + 1
    /\ success \in [Threads -> BOOLEAN]
    /\ standard_vote_count = Cardinality({t \in Threads : success[t]})
    /\ initial_accelerated_vote_count = 0
    /\ accelerated_vote_count = 0
    /\ super_accelerated_vote_count = 1
    /\ shutdown_flag = FALSE
    /\ _parallel_active = [i \in Slots |-> TRUE]
    /\ _first_vote_completed = TRUE
    /\ _last_verification_vote_count = 1
    /\ journal = log_vote_to_json(AbsentFile, LogFirstEntry)
    /\ delay_parallel_startup = FALSE
    /\ current_behind_count = 0
    /\ is_lead_high = FALSE
    /\ wait_range = NoWait
    /\ pc = [t \in Threads |-> "log"]
    /\ current_vote_num = [t \in Threads |-> 2 + t]
    /\ results = [t \in Threads |-> << >>]
    /\ cutler_ahead = [t \in Threads |-> FALSE]
    /\ vote_type = [t \in Threads |->
                       IF success[t] THEN "standard"
                       ELSE FailedTier(consecutive_behind_count)]
    /\ lead_percentage = [t \in Threads |-> None]
    /\ is_backoff_active = [t \in Threads |-> FALSE]
    /\ current_behind_for_log = [t \in Threads |-> consecutive_behind_count]
    /\ current_behind = [t \in Threads |-> 0]
    /\ _json_log_lock = None
    /\ data = [t \in Threads |-> None]
    /\ verification = UnwritableFile
    /\ lock_holder = [l \in CoreLocks |-> None]
    /\ lock_op = [t \in Threads |-> NoLockOp]
    /\ backoff_at_start = [t \in Threads |-> IF InIteration(pc[t])
                                                THEN Some(lead_backoff_multiplier) ELSE None]

NextLog ==
    \/ \E t \in Threads : JsonAcquire(t)
    \/ \E t \in Threads : JsonRead(t)
    \/ \E t \in Threads : JsonWrite(t)

SpecLog == InitLog /\ [][NextLog]_vars

---------------------------------------------------------------------------
(* SpecStart: main() from its arguments to the entry of its loop *)

\* lines 2996-3004
ValidThreadCounts(start, maximum) ==
    maximum >= 1 /\ start >= 1 /\ start <= maximum

\* The module as loaded (lines 61-122) and the arguments as parsed (lines
\* 2990-2993): --max-threads from 1 to its default, --start-threads from 0 to
\* one more than that.
InitStart ==
    /\ max_threads \in 1..DefaultMaxThreads
    /\ start_thread_count \in 0..(DefaultMaxThreads + 1)
    /\ _force_parallel_mode = FALSE
    /\ vote_count = 0
    /\ lead_backoff_multiplier = Scale
    /\ consecutive_behind_count = 0
    /\ standard_vote_count = 0
    /\ accelerated_vote_count = 0
    /\ super_accelerated_vote_count = 0
    /\ initial_accelerated_vote_count = 0
    /\ shutdown_flag = FALSE
    /\ _parallel_active = << >>
    /\ _first_vote_completed = FALSE
    /\ _last_verification_vote_count = 0
    /\ journal = UnwritableFile
    /\ delay_parallel_startup = FALSE
    /\ current_behind_count = 0
    /\ is_lead_high = FALSE
    /\ wait_range = NoWait
    /\ pc = [t \in Threads |-> IF t = Main THEN "start" ELSE "unborn"]
    /\ current_vote_num = [t \in Threads |-> 0]
    /\ success = [t \in Threads |-> FALSE]
    /\ results = [t \in Threads |-> << >>]
    /\ cutler_ahead = [t \in Threads |-> FALSE]
    /\ vote_type = [t \in Threads |-> "standard"]
    /\ lead_percentage = [t \in Threads |-> None]
    /\ is_backoff_active = [t \in Threads |-> FALSE]
    /\ current_behind_for_log = [t \in Threads |-> 0]
    /\ current_behind = [t \in Threads |-> 0]
    /\ _json_log_lock = None
    /\ data = [t \in Threads |-> None]
    /\ verification = UnwritableFile
    /\ lock_holder = [l \in CoreLocks |-> None]
    /\ lock_op = [t \in Threads |-> NoLockOp]
    /\ backoff_at_start = [t \in Threads |-> IF InIteration(pc[t])
                                                THEN Some(lead_backoff_multiplier) ELSE None]

\* lines 2996-3004: sys.exit(1) on invalid thread counts
StartupRejects ==
    /\ pc[Main] = "start"
    /\ ~ValidThreadCounts(start_thread_count, max_threads)
    /\ pc' = [pc EXCEPT ![Main] = "exit"]
    /\ UNCHANGED <<globals, journal, main_locals, log_locals, lock_locals, iter_locals,
                   current_behind>>

\* lines 3055-3148: the slots are created inactive, --force-parallel is stored,
\* the counters are reset and the count is seeded
Startup ==
    /\ pc[Main] = "start"
    /\ ValidThreadCounts(start_thread_count, max_threads)
    /\ _parallel_active' = [i \in Slots |-> FALSE]
    /\ _force_parallel_mode' \in BOOLEAN
    /\ vote_count' = 0
    /\ lead_backoff_multiplier' = Scale
    /\ consecutive_behind_count' = initial_behind_count(start_thread_count)
    /\ standard_vote_count' = 0
    /\ accelerated_vote_count' = 0
    /\ super_accelerated_vote_count' = 0
    /\ initial_accelerated_vote_count' = 0
    /\ _first_vote_completed' = FALSE
    /\ _last_verification_vote_count' = 0
    /\ delay_parallel_startup' = (start_thread_count > 1)
    /\ pc' = [pc EXCEPT ![Main] = "loop"]
    /\ UNCHANGED <<shutdown_flag, journal, start_thread_count, max_threads, log_locals, lock_locals,
                   current_behind_count, is_lead_high, wait_range, iter_locals,
                   current_behind>>

NextStart ==
    \/ StartupRejects
    \/ Startup

SpecStart == InitStart /\ [][NextStart]_vars

---------------------------------------------------------------------------
(* SpecAudit: Main alone with a journal it can write, while the target is behind *)

\* --max-threads 1 and no journal file yet
InitAudit == InitWith(1, {1}, {AbsentFile})

\* the submission fails, or succeeds with the target in second place
SubmitVoteBehind(t) ==
    \E ok \in BOOLEAN : Classify(t, ok, IF ok THEN SnapBehind ELSE SnapEmpty)

\* the multiplier is read by an iteration only when the target is first
\* (line 2703), which these runs do not have: no step ReadBackoff
NextAudit ==
    \/ IncrementVoteCount(Main, MaxAuditVotes)
    \/ SubmitVoteBehind(Main)
    \/ ReadBehindForLog(Main)
    \/ LogVote(Main)
    \/ Verify
    \/ MainLoopCheck
    \/ DelayedStartup
    \/ BackoffUpdate
    \/ ReadBehindForScan
    \/ PoolScan
    \/ ComputeWait
    \/ MainSleep
    \/ signal_handler
    \/ StopAllSlots
    \/ JoinThreads
    \/ FinalStatistics

SpecAudit == InitAudit /\ [][NextAudit]_vars

---------------------------------------------------------------------------
(* SpecLive: Main and one worker under fair scheduling *)

\* one step of the thread that runs main()
MainStep(limit) ==
    \/ IncrementVoteCount(Main, limit)
    \/ SubmitVote(Main)
    \/ ReadBackoff(Main)
    \/ ReadBehindForLog(Main)
    \/ LogVote(Main)
    \/ Verify
    \/ MainLoopCheck
    \/ DelayedStartup
    \/ BackoffUpdate
    \/ ReadBehindForScan
    \/ PoolScan
    \/ ComputeWait
    \/ MainSleep
    \/ StopAllSlots
    \/ JoinThreads
    \/ FinalStatistics

\* one step of the thread of slot i, a daemon thread
AuxStep(i, limit) ==
    /\ Running
    /\ \/ AuxLoopCheck(i)
       \/ AuxReadBehind(i)
       \/ AuxCheckThreshold(i)
       \/ IncrementVoteCount(i, limit)
       \/ SubmitVote(i)
       \/ ReadBackoff(i)
       \/ ReadBehindForLog(i)
       \/ LogVote(i)
       \/ AuxAfterIteration(i)
       \/ AuxSleep(i)
       \/ AuxExit(i)

NextLive ==
    \/ MainStep(MaxLiveVotes)
    \/ \E i \in Slots : AuxStep(i, MaxLiveVotes)
    \/ signal_handler

\* Every thread that can take a step takes one in the end: submissions return,
\* sleeps end and the scheduler is fair.  The signal may never come.
SpecLive ==
    /\ Init
    /\ [][NextLive]_vars
    /\ WF_vars(MainStep(MaxLiveVotes))
    /\ WF_vars(AuxStep(1, MaxLiveVotes))

---------------------------------------------------------------------------
(* SpecNames: Main alone, the result page writing the names in several ways *)

\* lines 2592-2698 with the result pages of NameSnapshots
SubmitVoteNames(t) ==
    \E ok \in BOOLEAN : \E r \in NameSnapshots :
        /\ (~ok => r = << >>)
        /\ Classify(t, ok, r)

NextNames ==
    \/ IncrementVoteCount(Main, MaxNameVotes)
    \/ SubmitVoteNames(Main)
    \/ ReadBackoff(Main)
    \/ ReadBehindForLog(Main)
    \/ LogVote(Main)
    \/ Verify
    \/ MainLoopCheck
    \/ DelayedStartup
    \/ BackoffUpdate
    \/ ReadBehindForScan
    \/ PoolScan
    \/ ComputeWait
    \/ MainSleep
    \/ signal_handler
    \/ StopAllSlots
    \/ JoinThreads
    \/ FinalStatistics

SpecNames == InitSolo /\ [][NextNames]_vars

---------------------------------------------------------------------------
(* SpecLocks: Main and one worker with the core locks taken and released in
   steps of their own.  A thread at a position first runs the lock operations
   of the "with" statements of that position, one per step; the effect of the
   position on the program state is the step that follows the last of them. *)

\* "with l:" around a block that takes no other core lock
With(l) == << <<"acquire", l>>, <<"release", l>> >>

\* lines 2757-2771: the verification is logged, with a second read of vote_count
VerificationLogged ==
    /\ VerificationMarker(vote_count, _last_verification_vote_count)
          # _last_verification_vote_count
    /\ success[Main]
    /\ results[Main] # << >>
    /\ cutler_position(results[Main]) # None

\* the lock operations with the read of the multiplier (3242) put inside the
\* block of the read of the count (3238)
LockProgramNested(t) ==
    IF pc[t] = "m_wait"
       THEN << <<"acquire", "_counter_lock">>, <<"acquire", "lead_backoff_lock">>,
               <<"release", "lead_backoff_lock">>, <<"release", "_counter_lock">> >>
       ELSE IF pc[t] \in {"iter", "submit", "log_read", "a_read", "m_scan_read", "stats"}
               THEN With("_counter_lock")
               ELSE << >>

\* the lock operations of the "with" statements thread t runs at its position,
\* in the order of the source: 2579, 2626-2689, 2708, 2718, 2747 and 2770,
\* 2800, 2806, 2812, 2822, 2836, 3167, 3186, 3202, 3206, 3238 and 3242, 3300, 3318
LockProgram(t) ==
    CASE pc[t] \in {"iter", "submit", "log_read", "a_read", "m_scan_read", "stats"} ->
            With("_counter_lock")
      [] pc[t] = "backoff_read" -> With("lead_backoff_lock")
      [] pc[t] = "verify" ->
            With("_counter_lock")
               \o (IF VerificationLogged THEN With("_counter_lock") ELSE << >>)
      [] pc[t] \in {"a_loop", "a_sleep"} ->
            IF shutdown_flag THEN << >> ELSE With("_parallel_voting_lock")
      [] pc[t] = "a_check" ->
            IF AuxBelowThreshold(current_behind[t], _parallel_thresholds[t],
                                 _force_parallel_mode)
               THEN With("_parallel_voting_lock") ELSE << >>
      [] pc[t] = "a_after" ->
            IF AuxStopsWhenAhead(cutler_ahead[t], _force_parallel_mode)
               THEN With("_parallel_voting_lock") ELSE << >>
      [] pc[t] = "m_delay" ->
            IF delay_parallel_startup /\ _first_vote_completed
               THEN With("_parallel_voting_lock") ELSE << >>
      [] pc[t] = "m_backoff" ->
            IF results[Main] # << >> /\ cutler_ahead[Main]
               THEN With("lead_backoff_lock") ELSE << >>
      [] pc[t] \in {"m_scan", "finally"} -> With("_parallel_voting_lock")
      [] pc[t] = "m_wait" -> With("_counter_lock") \o With("lead_backoff_lock")
      [] OTHER -> << >>

\* the lock operations thread t has still to run at its position
PendingLockOps(t) ==
    IF lock_op[t][1] = pc[t] THEN lock_op[t][2] ELSE LockProgram(t)

\* the core locks thread t holds
HeldLocks(t) == {l \in CoreLocks : lock_holder[l] = Some(t)}

\* thread t is at "with l:", which blocks while l is held (threading.Lock is
\* not reentrant)
AcquireLock(t) ==
    /\ PendingLockOps(t) # << >>
    /\ Head(PendingLockOps(t))[1] = "acquire"
    /\ lock_holder[Head(PendingLockOps(t))[2]] = None
    /\ lock_holder' = [lock_holder EXCEPT ![Head(PendingLockOps(t))[2]] = Some(t)]
    /\ lock_op' = [lock_op EXCEPT ![t] = <<pc[t], Tail(PendingLockOps(t))>>]
    /\ UNCHANGED <<globals, journal, main_locals, pc, iter_locals, current_behind,
                   log_locals, backoff_at_start>>

\* thread t leaves the block of "with l:"
ReleaseLock(t) ==
    /\ PendingLockOps(t) # << >>
    /\ Head(PendingLockOps(t))[1] = "release"
    /\ lock_holder' = [lock_holder EXCEPT ![Head(PendingLockOps(t))[2]] = None]
    /\ lock_op' = [lock_op EXCEPT ![t] = <<pc[t], Tail(PendingLockOps(t))>>]
    /\ UNCHANGED <<globals, journal, main_locals, pc, iter_locals, current_behind,
                   log_locals, backoff_at_start>>

\* thread t has run every "with" statement of its position
LocksDone(t) == PendingLockOps(t) = << >>

NextLocks ==
    \/ AcquireLock(Main)
    \/ ReleaseLock(Main)
    \/ LocksDone(Main) /\ MainStep(MaxLockVotes)
    \/ \E i \in Slots : Running /\ AcquireLock(i)
    \/ \E i \in Slots : Running /\ ReleaseLock(i)
    \/ \E i \in Slots : LocksDone(i) /\ AuxStep(i, MaxLockVotes)
    \/ signal_handler

SpecLocks == Init /\ [][NextLocks]_vars

---------------------------------------------------------------------------
(* SpecVerify: Main and one worker, from the start of a run and from a run
   that is one attempt short of the first multiple of VerificationInterval *)

VerifyStart == VerificationInterval - 1

\* A run with --start-threads 2 --force-parallel in which the target has been
\* first with a low lead in every iteration so far: VerifyStart attempts made,
\* the earlier ones all standard, the verification of attempt 1 done, Main
\* inside its submission with the last attempt number and the worker at its
\* loop test (line 2798).
InitVerifyMidRunWith(samples) ==
    /\ max_threads = 1 + 1
    /\ start_thread_count = 1 + 1
    /\ _force_parallel_mode = TRUE
    /\ vote_count = VerifyStart
    /\ lead_backoff_multiplier = Scale
    /\ consecutive_behind_count = 0
    /\ standard_vote_count = VerifyStart - 1
    /\ accelerated_vote_count = 0
    /\ super_accelerated_vote_count = 0
    /\ initial_accelerated_vote_count = 0
    /\ shutdown_flag = FALSE
    /\ _parallel_active = [i \in Slots |-> TRUE]
    /\ _first_vote_completed = TRUE
    /\ _last_verification_vote_count = 1
    /\ journal = UnwritableFile
    /\ delay_parallel_startup = FALSE
    /\ current_behind_count = 0
    /\ is_lead_high = FALSE
    /\ wait_range = NoWait
    /\ pc = [t \in Threads |-> IF t = Main THEN "submit" ELSE "a_loop"]
    /\ current_vote_num = [t \in Threads |-> IF t = Main THEN VerifyStart ELSE 0]
    /\ success = [t \in Threads |-> FALSE]
    /\ results = [t \in Threads |-> << >>]
    /\ cutler_ahead = [t \in Threads |-> FALSE]
    /\ vote_type = [t \in Threads |-> "standard"]
    /\ lead_percentage = [t \in Threads |-> None]
    /\ is_backoff_active = [t \in Threads |-> FALSE]
    /\ current_behind_for_log = [t \in Threads |-> 0]
    /\ current_behind = [t \in Threads |-> 0]
    /\ _json_log_lock = None
    /\ data = [t \in Threads |-> None]
    /\ verification \in samples
    /\ lock_holder = [l \in CoreLocks |-> None]
    /\ lock_op = [t \in Threads |-> NoLockOp]
    /\ backoff_at_start = [t \in Threads |-> IF InIteration(pc[t])
                                                THEN Some(lead_backoff_multiplier) ELSE None]

\* the same with a verification file that can be neither read nor written
InitVerifyMidRun == InitVerifyMidRunWith({UnwritableFile})

InitVerify == Init \/ InitVerifyMidRun

\* the bound on vote_count: MaxVerifyRounds attempts from either first state
VerifyLimit ==
    IF vote_count < VerifyStart THEN MaxVerifyRounds
    ELSE VerifyStart + MaxVerifyRounds

NextVerify ==
    \/ MainStep(VerifyLimit)
    \/ \E i \in Slots : AuxStep(i, VerifyLimit)
    \/ signal_handler

SpecVerify == InitVerify /\ [][NextVerify]_vars

---------------------------------------------------------------------------
(* SpecPool: Main and one worker without --force-parallel, from the start of
   a run and from a run in which the slot was stopped and is about to be
   started again *)

\* the count one short of the threshold of the first slot
PoolBehindRun == _parallel_thresholds[1] - 1

\* attempts made in the first state: two of Main, one of the worker, and the run
PoolStart == 3 + PoolBehindRun

\* A run with --start-threads 2: Main's first iteration found the target
\* second (count 21) and the worker was started; the worker took attempt 2 and
\* is inside its submission since; Main's next iteration found the target
\* first (count 0) and its scan stopped the slot; PoolBehindRun iterations of
\* Main found the target second, and Main is about to read the count for its
\* scan (line 3202).
InitPoolMidRun ==
    /\ max_threads = 1 + 1
    /\ start_thread_count = 1 + 1
    /\ _force_parallel_mode = FALSE
    /\ vote_count = PoolStart
    /\ lead_backoff_multiplier = Scale
    /\ consecutive_behind_count = PoolBehindRun
    /\ standard_vote_count = 1
    /\ initial_accelerated_vote_count = BehindRunTiers(PoolBehindRun)[1]
    /\ accelerated_vote_count = BehindRunTiers(PoolBehindRun)[2]
    /\ super_accelerated_vote_count = 1 + BehindRunTiers(PoolBehindRun)[3]
    /\ shutdown_flag = FALSE
    /\ _parallel_active = [i \in Slots |-> FALSE]
    /\ _first_vote_completed = TRUE
    /\ _last_verification_vote_count = 1
    /\ journal = UnwritableFile
    /\ delay_parallel_startup = FALSE
    /\ current_behind_count = 0
    /\ is_lead_high = FALSE
    /\ wait_range = WaitRange(TRUE, FALSE, PoolBehindRun - 1)
    /\ pc = [t \in Threads |-> IF t = Main THEN "m_scan_read" ELSE "submit"]
    /\ current_vote_num = [t \in Threads |-> IF t = Main THEN 0 ELSE 2]
    /\ success = [t \in Threads |-> t = Main]
    /\ results = [t \in Threads |-> IF t = Main THEN SnapBehind ELSE << >>]
    /\ cutler_ahead = [t \in Threads |-> FALSE]
    /\ vote_type = [t \in Threads |-> "standard"]
    /\ lead_percentage = [t \in Threads |-> None]
    /\ is_backoff_active = [t \in Threads |-> FALSE]
    /\ current_behind_for_log = [t \in Threads |-> 0]
    /\ current_behind = [t \in Threads |-> 0]
    /\ _json_log_lock = None
    /\ data = [t \in Threads |-> None]
    /\ verification = UnwritableFile
    /\ lock_holder = [l \in CoreLocks |-> None]
    /\ lock_op = [t \in Threads |-> NoLockOp]
    /\ backoff_at_start = [t \in Threads |-> IF InIteration(pc[t])
                                                THEN Some(lead_backoff_multiplier) ELSE None]

InitPool == Init \/ InitPoolMidRun

\* the bound on vote_count: MaxPoolRounds attempts from either first state
PoolLimit ==
    IF vote_count < PoolStart THEN MaxPoolRounds ELSE PoolStart + MaxPoolRounds

NextPool ==
    \/ MainStep(PoolLimit)
    \/ \E i \in Slots : AuxStep(i, PoolLimit)
    \/ signal_handler

SpecPool == InitPool /\ [][NextPool]_vars

---------------------------------------------------------------------------
(* SpecFirst: Main and one worker from the start of a run, the journal absent
   and writable *)

InitFirst == InitWith(1 + 1, {1, 2}, {AbsentFile})

NextFirst ==
    \/ MainStep(MaxFirstVotes)
    \/ \E i \in Slots : AuxStep(i, MaxFirstVotes)
    \/ signal_handler

SpecFirst == InitFirst /\ [][NextFirst]_vars

---------------------------------------------------------------------------
(* SpecWait: Main alone, every value of the random wait on its own *)

NextWait ==
    \/ IncrementVoteCount(Main, MaxWaitVotes)
    \/ SubmitVote(Main)
    \/ ReadBackoff(Main)
    \/ ReadBehindForLog(Main)
    \/ LogVote(Main)
    \/ Verify
    \/ MainLoopCheck
    \/ DelayedStartup
    \/ BackoffUpdate
    \/ ReadBehindForScan
    \/ PoolScan
    \/ ComputeWaitDrawing(TRUE)
    \/ MainSleep
    \/ signal_handler
    \/ StopAllSlots
    \/ JoinThreads
    \/ FinalStatistics

SpecWait == InitSolo /\ [][NextWait]_vars

---------------------------------------------------------------------------
(* SpecTier: Main and one worker with --force-parallel, from the start of a run
   and from runs whose count stands just under a tier boundary *)

\* the counts the mid-run first states stand at
TierRuns == {3, 8}

\* attempts made in the first state of a run of n: one target-first, n not
TierStart(n) == 1 + n

\* A run with --start-threads 2 --force-parallel: Main's first iteration found
\* the target first (count 0), the next n iterations of either thread found it
\* second; both threads are at their loop tests (lines 3150 and 2798).
InitTierMidRun ==
    /\ max_threads = 1 + 1
    /\ start_thread_count = 1 + 1
    /\ _force_parallel_mode = TRUE
    /\ consecutive_behind_count \in TierRuns
    /\ vote_count = TierStart(consecutive_behind_count)
    /\ lead_backoff_multiplier = Scale
    /\ standard_vote_count = 1
    /\ initial_accelerated_vote_count = BehindRunTiers(consecutive_behind_count)[1]
    /\ accelerated_vote_count = BehindRunTiers(consecutive_behind_count)[2]
    /\ super_accelerated_vote_count = BehindRunTiers(consecutive_behind_count)[3]
    /\ shutdown_flag = FALSE
    /\ _parallel_active = [i \in Slots |-> TRUE]
    /\ _first_vote_completed = TRUE
    /\ _last_verification_vote_count = 1
    /\ journal = UnwritableFile
    /\ delay_parallel_startup = FALSE
    /\ current_behind_count = 0
    /\ is_lead_high = FALSE
    /\ wait_range = NoWait
    /\ pc = [t \in Threads |-> IF t = Main THEN "loop" ELSE "a_loop"]
    /\ current_vote_num = [t \in Threads |-> 0]
    /\ success = [t \in Threads |-> FALSE]
    /\ results = [t \in Threads |-> << >>]
    /\ cutler_ahead = [t \in Threads |-> FALSE]
    /\ vote_type = [t \in Threads |-> "standard"]
    /\ lead_percentage = [t \in Threads |-> None]
    /\ is_backoff_active = [t \in Threads |-> FALSE]
    /\ current_behind_for_log = [t \in Threads |-> 0]
    /\ current_behind = [t \in Threads |-> 0]
    /\ _json_log_lock = None
    /\ data = [t \in Threads |-> None]
    /\ verification = UnwritableFile
    /\ lock_holder = [l \in CoreLocks |-> None]
    /\ lock_op = [t \in Threads |-> NoLockOp]
    /\ backoff_at_start = [t \in Threads |-> None]

InitTier == Init \/ InitTierMidRun

\* the bound on vote_count: MaxTierRounds attempts from each first state
TierLimit ==
    IF vote_count <= MaxTierRounds THEN MaxTierRounds
    ELSE IF vote_count <= TierStart(3) + MaxTierRounds THEN TierStart(3) + MaxTierRounds
    ELSE TierStart(8) + MaxTierRounds

NextTier ==
    \/ MainStep(TierLimit)
    \/ \E i \in Slots : AuxStep(i, TierLimit)
    \/ signal_handler

SpecTier == InitTier /\ [][NextTier]_vars

---------------------------------------------------------------------------
(* SpecCrash: Main and one worker with --force-parallel, the multiplier above
   1.0, so that a snapshot of one entry raises out of Main's loop *)

\* A run with --start-threads 2 --force-parallel: Main's first iteration found
\* the target first with a lead over the threshold, the update raised the
\* multiplier to 1.5 and the worker was started; both threads are at their
\* loop tests (lines 3150 and 2798).
InitCrash ==
    /\ max_threads = 1 + 1
    /\ start_thread_count = 1 + 1
    /\ _force_parallel_mode = TRUE
    /\ vote_count = 1
    /\ lead_backoff_multiplier = NextBackoff(Scale, TRUE)
    /\ consecutive_behind_count = 0
    /\ standard_vote_count = 1
    /\ initial_accelerated_vote_count = 0
    /\ accelerated_vote_count = 0
    /\ super_accelerated_vote_count = 0
    /\ shutdown_flag = FALSE
    /\ _parallel_active = [i \in Slots |-> TRUE]
    /\ _first_vote_completed = TRUE
    /\ _last_verification_vote_count = 1
    /\ journal = UnwritableFile
    /\ delay_parallel_startup = FALSE
    /\ current_behind_count = 0
    /\ is_lead_high = FALSE
    /\ wait_range = NoWait
    /\ pc = [t \in Threads |-> IF t = Main THEN "loop" ELSE "a_loop"]
    /\ current_vote_num = [t \in Threads |-> 0]
    /\ success = [t \in Threads |-> FALSE]
    /\ results = [t \in Threads |-> << >>]
    /\ cutler_ahead = [t \in Threads |-> FALSE]
    /\ vote_type = [t \in Threads |-> "standard"]
    /\ lead_percentage = [t \in Threads |-> None]
    /\ is_backoff_active = [t \in Threads |-> FALSE]
    /\ current_behind_for_log = [t \in Threads |-> 0]
    /\ current_behind = [t \in Threads |-> 0]
    /\ _json_log_lock = None
    /\ data = [t \in Threads |-> None]
    /\ verification = UnwritableFile
    /\ lock_holder = [l \in CoreLocks |-> None]
    /\ lock_op = [t \in Threads |-> NoLockOp]
    /\ backoff_at_start = [t \in Threads |-> None]

\* the bound on vote_count
CrashLimit == 1 + MaxCrashRounds

NextCrash ==
    \/ MainStep(CrashLimit)
    \/ \E i \in Slots : AuxStep(i, CrashLimit)
    \/ signal_handler

\* Every thread that can take a step takes one in the end; the signal may never come.
SpecCrash ==
    /\ InitCrash
    /\ [][NextCrash]_vars
    /\ WF_vars(MainStep(CrashLimit))
    /\ WF_vars(AuxStep(1, CrashLimit))

---------------------------------------------------------------------------
(* SpecRace: --max-threads 22 without --force-parallel, every thread inside a
   submission; Main's result page then puts the target first while the
   workers' pages, which return one after another, put it second *)

\* --max-threads (line 2909 sets the default, lines 2996-3004 accept any value
\* >= 1): Main and as many workers as it takes to bring the count from 0 to the
\* threshold of slot 1 with one iteration each, plus the worker of slot 1
RaceThreads == 22

\* the threshold of the last slot (line 2861)
RaceCount == 20 + (10 * (RaceThreads - 2))

\* A run whose first RaceCount iterations all found the target second: the
\* scans have started every slot, every worker has passed the check of line
\* 2810 with the count at RaceCount, and all the threads have taken their
\* attempt numbers (line 2580) and are waiting for their result pages.
InitRace ==
    /\ max_threads = RaceThreads
    /\ start_thread_count = 1
    /\ _force_parallel_mode = FALSE
    /\ consecutive_behind_count = RaceCount
    /\ vote_count = RaceCount + RaceThreads
    /\ lead_backoff_multiplier = Scale
    /\ standard_vote_count = 0
    /\ initial_accelerated_vote_count = BehindRunTiers(RaceCount)[1]
    /\ accelerated_vote_count = BehindRunTiers(RaceCount)[2]
    /\ super_accelerated_vote_count = BehindRunTiers(RaceCount)[3]
    /\ shutdown_flag = FALSE
    /\ _parallel_active = [i \in Slots |-> TRUE]
    /\ _first_vote_completed = TRUE
    /\ _last_verification_vote_count = 1
    /\ journal = UnwritableFile
    /\ delay_parallel_startup = FALSE
    /\ current_behind_count = RaceCount
    /\ is_lead_high = FALSE
    /\ wait_range = NoWait
    /\ pc = [t \in Threads |-> "submit"]
    /\ current_vote_num = [t \in Threads |-> RaceCount + 1 + t]
    /\ success = [t \in Threads |-> FALSE]
    /\ results = [t \in Threads |-> << >>]
    /\ cutler_ahead = [t \in Threads |-> FALSE]
    /\ vote_type = [t \in Threads |-> "standard"]
    /\ lead_percentage = [t \in Threads |-> None]
    /\ is_backoff_active = [t \in Threads |-> FALSE]
    /\ current_behind_for_log = [t \in Threads |-> 0]
    /\ current_behind = [t \in Threads |-> 0]
    /\ _json_log_lock = None
    /\ data = [t \in Threads |-> None]
    /\ verification = UnwritableFile
    /\ lock_holder = [l \in CoreLocks |-> None]
    /\ lock_op = [t \in Threads |-> NoLockOp]
    /\ backoff_at_start = [t \in Threads |-> Some(lead_backoff_multiplier)]

\* the scheduling of this run: Main's page returns first, and the worker of
\* slot i runs once the workers of the slots before it have ended or stand
\* before their next attempt
RaceTurn(i) ==
    /\ pc[Main] # "submit"
    /\ \A j \in Slots : j < i => pc[j] \in {"iter", "a_done"}

\* Main runs the rest of its pass, up to its wait, with any result page; each
\* worker in its turn runs the rest of its iteration with a page that puts the
\* target second, and its loop up to the next attempt
NextRace ==
    \/ SubmitVote(Main)
    \/ ReadBackoff(Main)
    \/ ReadBehindForLog(Main)
    \/ LogVote(Main)
    \/ Verify
    \/ DelayedStartup
    \/ BackoffUpdate
    \/ ReadBehindForScan
    \/ PoolScan
    \/ \E i \in Slots :
          /\ RaceTurn(i)
          /\ \/ Classify(i, TRUE, SnapBehind)
             \/ ReadBehindForLog(i)
             \/ LogVote(i)
             \/ AuxAfterIteration(i)
             \/ AuxSleep(i)
             \/ AuxLoopCheck(i)
             \/ AuxReadBehind(i)
             \/ AuxCheckThreshold(i)
             \/ AuxExit(i)

SpecRace == InitRace /\ [][NextRace]_vars

---------------------------------------------------------------------------
(* SpecSample: log_vote_verification on verification files that exist before
   the call *)

\* a record as log_vote_verification writes it for a session's first call
FirstRecord(session, count, total, r) ==
    [verification_record(<< >>, count, total, cutler_percentage_of(r)[1], r)
        EXCEPT !.session_id = session]

\* the global vote_count at a verification: 1 or a multiple of VerificationInterval
SampleCounts == {1, VerificationInterval}

\* result pages that name the target
SampleSnapshots == {SnapLeadHigh, SnapAlone, SnapBehind}

SampleTotals == {total[1] : total \in TotalVotesShown \ {None}}

\* the files a call can find: none, one that is no JSON, a JSON object without
\* records, and record lists left by an earlier run, by this run, or by both
\* (two runs writing the same file in turn)
SampleFiles ==
    {AbsentFile, CorruptFile, [state |-> "ok"]}
    \cup {[state |-> "ok", verification_records |-> records] :
            records \in
               {<< >>,
                <<FirstRecord(EarlierSessionId, 1, 100, SnapBehind)>>,
                <<FirstRecord(_current_session_id, 1, 100, SnapBehind)>>,
                <<FirstRecord(_current_session_id, 1, 100, SnapBehind),
                  FirstRecord(EarlierSessionId, 1, 180, SnapLeadHigh)>>}}

InitSample == InitFiles(1, {1}, {UnwritableFile}, SampleFiles)

SampleLen ==
    IF verification.state = "ok"
        THEN Len(Get(verification, "verification_records", << >>)) ELSE 0

\* one call log_vote_verification(vote_count, total_votes, cutler_percentage, results)
WriteVerification ==
    /\ SampleLen < MaxSampleLen
    /\ \E count \in SampleCounts : \E total \in SampleTotals : \E r \in SampleSnapshots :
          verification' = log_vote_verification(verification, count, total,
                                                cutler_percentage_of(r)[1], r)
    /\ UNCHANGED <<globals, journal, main_locals, _json_log_lock, data, lock_locals, pc,
                   iter_locals, current_behind>>

NextSample == WriteVerification

SpecSample == InitSample /\ [][NextSample]_vars

---------------------------------------------------------------------------
(* SpecObserve: Main and one worker with a verification file that can be
   written, from the start of a run and from a run that is one attempt short of
   the first multiple of VerificationInterval *)

\* the file at the start of a run: none, or one that cannot be written
ObserveStartFiles == {AbsentFile, UnwritableFile}

\* the file after the verification of attempt 1 of the run of InitVerifyMidRun
ObserveMidRunFiles ==
    {UnwritableFile,
     [state |-> "ok",
      verification_records |-> <<FirstRecord(_current_session_id, 1, 100, SnapLeadLow)>>]}

InitObserve ==
    \/ InitFiles(1 + 1, {1 + 1}, {UnwritableFile}, ObserveStartFiles)
    \/ InitVerifyMidRunWith(ObserveMidRunFiles)

\* the bound on vote_count: MaxObserveRounds attempts from either first state
ObserveLimit ==
    IF vote_count < VerifyStart THEN MaxObserveRounds
    ELSE VerifyStart + MaxObserveRounds

NextObserve ==
    \/ MainStep(ObserveLimit)
    \/ \E i \in Slots : AuxStep(i, ObserveLimit)
    \/ signal_handler

SpecObserve == InitObserve /\ [][NextObserve]_vars

---------------------------------------------------------------------------
(* SpecOrder: Main and one worker writing the journal of a run whose first
   attempt is recorded *)

\* the entry of Main's first iteration of a run with --start-threads 2, which
\* found the target second
OrderFirstEntry ==
    [vote_number |-> 1, thread_id |-> "Main", timestamp |-> 1, success |-> TRUE,
     cutler_ahead |-> FALSE, cutler_position |-> Some(2), cutler_percentage |-> Some(30),
     consecutive_behind_count |-> initial_behind_count(1 + 1) + 1,
     vote_type |-> "super_accelerated", lead_percentage |-> None,
     exponential_backoff |-> FALSE]

\* A run with --start-threads 2 and no journal: Main's first iteration found
\* the target second and wrote the first entry, the worker was started, and
\* Main has scanned, waited and taken the number of its second iteration
\* (lines 2578-2581) when the worker reaches its loop test (line 2798).
InitOrder ==
    /\ max_threads = 1 + 1
    /\ start_thread_count = 1 + 1
    /\ _force_parallel_mode \in BOOLEAN
    /\ vote_count = 1 + 1
    /\ lead_backoff_multiplier = Scale
    /\ consecutive_behind_count = initial_behind_count(start_thread_count) + 1
    /\ standard_vote_count = 0
    /\ initial_accelerated_vote_count = 0
    /\ accelerated_vote_count = 0
    /\ super_accelerated_vote_count = 1
    /\ shutdown_flag = FALSE
    /\ _parallel_active = [i \in Slots |-> TRUE]
    /\ _first_vote_completed = TRUE
    /\ _last_verification_vote_count = 1
    /\ journal = log_vote_to_json(AbsentFile, OrderFirstEntry)
    /\ delay_parallel_startup = FALSE
    /\ current_behind_count = consecutive_behind_count
    /\ is_lead_high = FALSE
    /\ wait_range = NoWait
    /\ pc = [t \in Threads |-> IF t = Main THEN "submit" ELSE "a_loop"]
    /\ current_vote_num = [t \in Threads |-> IF t = Main THEN vote_count ELSE 0]
    /\ success = [t \in Threads |-> t = Main]
    /\ results = [t \in Threads |-> IF t = Main THEN SnapBehind ELSE << >>]
    /\ cutler_ahead = [t \in Threads |-> FALSE]
    /\ vote_type = [t \in Threads |-> "standard"]
    /\ lead_percentage = [t \in Threads |-> None]
    /\ is_backoff_active = [t \in Threads |-> FALSE]
    /\ current_behind_for_log = [t \in Threads |-> 0]
    /\ current_behind = [t \in Threads |-> 0]
    /\ _json_log_lock = None
    /\ data = [t \in Threads |-> None]
    /\ verification = UnwritableFile
    /\ lock_holder = [l \in CoreLocks |-> None]
    /\ lock_op = [t \in Threads |-> NoLockOp]
    /\ backoff_at_start = [t \in Threads |-> IF t = Main THEN Some(lead_backoff_multiplier) ELSE None]

\* the bound on vote_count
OrderLimit == (1 + 1) + MaxOrderRounds

\* the result pages of these runs: the target first by a small lead, or second
OrderSnapshots == {SnapLeadLow, SnapBehind}

\* lines 2592-2698 on those pages, or a submission that failed
SubmitVoteOrder(t) ==
    \E ok \in BOOLEAN : \E r \in OrderSnapshots \cup {SnapEmpty} :
        /\ (ok <=> r # SnapEmpty)
        /\ Classify(t, ok, r)

NextOrder ==
    \/ IncrementVoteCount(Main, OrderLimit)
    \/ SubmitVoteOrder(Main)
    \/ ReadBackoff(Main)
    \/ ReadBehindForLog(Main)
    \/ LogVote(Main)
    \/ Verify
    \/ MainLoopCheck
    \/ DelayedStartup
    \/ BackoffUpdate
    \/ ReadBehindForScan
    \/ PoolScan
    \/ ComputeWait
    \/ MainSleep
    \/ StopAllSlots
    \/ JoinThreads
    \/ FinalStatistics
    \/ \E i \in Slots :
          /\ Running
          /\ \/ AuxLoopCheck(i)
             \/ AuxReadBehind(i)
             \/ AuxCheckThreshold(i)
             \/ IncrementVoteCount(i, OrderLimit)
             \/ SubmitVoteOrder(i)
             \/ ReadBackoff(i)
             \/ ReadBehindForLog(i)
             \/ LogVote(i)
             \/ AuxAfterIteration(i)
             \/ AuxSleep(i)
             \/ AuxExit(i)
    \/ signal_handler

SpecOrder == InitOrder /\ [][NextOrder]_vars

---------------------------------------------------------------------------
(* Properties *)

\* thread t takes its attempt number in this step
StartsIteration(t) == pc[t] = "iter" /\ pc'[t] = "submit"

\* thread t records the outcome of its submission in this step
RecordsOutcome(t) == pc[t] = "submit" /\ pc'[t] # "submit"

\* the snapshot is non-empty and its first entry is the target
TargetFirst(r) == r # << >> /\ r[1][1] = TARGET_ATHLETE

\* the threads that hold an attempt number: between the increment and the log
InFlight == {t \in Threads : current_vote_num[t] # 0}

\* C1: every iteration increments vote_count exactly once, atomically and
\* before the submission: the iteration that starts gets vote_count + 1, a
\* number above every number handed out before, vote_count changes in no other
\* step, and no two iterations in flight hold the same number.
C1_AttemptCounter ==
    [][/\ \A t \in Threads :
             StartsIteration(t) =>
                /\ vote_count' = vote_count + 1
                /\ current_vote_num'[t] = vote_count + 1
                /\ \A u \in InFlight : current_vote_num[u] < current_vote_num'[t]
       /\ vote_count' # vote_count => \E t \in Threads : StartsIteration(t)
       /\ \A t \in Threads : pc'[t] = "submit" => current_vote_num'[t] \in 1..vote_count'
       /\ \A t \in InFlight' : \A u \in InFlight' :
             t # u => current_vote_num'[t] # current_vote_num'[u]]_vars

\* Main and a worker are both between increment and submission, with numbers 2 and 3
C1_Witness ==
    /\ pc[Main] = "submit" /\ pc[1] = "submit"
    /\ vote_count = 3
    /\ {current_vote_num[Main], current_vote_num[1]} = {2, 3}

\* C2: consecutive_behind_count changes only when an iteration records a
\* successful submission with a non-empty snapshot: to 0 when the target is
\* first, to the old value plus one when it is not; any other step leaves it
\* as it is, and it goes down only by the reset to 0.
C2_BehindCount ==
    [][/\ \A t \in Threads :
             RecordsOutcome(t) /\ success'[t] /\ results'[t] # << >> =>
                consecutive_behind_count' =
                   IF TargetFirst(results'[t]) THEN 0 ELSE consecutive_behind_count + 1
       /\ consecutive_behind_count' # consecutive_behind_count =>
             \E t \in Threads : RecordsOutcome(t) /\ success'[t] /\ results'[t] # << >>
       /\ consecutive_behind_count' < consecutive_behind_count =>
             consecutive_behind_count' = 0]_vars

\* the worker's iteration has found the target first and reset the seeded count of 20
C2_Witness ==
    /\ start_thread_count = 2
    /\ pc[1] \in {"backoff_read", "log_read"}
    /\ TargetFirst(results[1])
    /\ consecutive_behind_count = 0

\* the tier counters as a tuple in the order standard, initial, accelerated, super
C3_Tiers == <<standard_vote_count, initial_accelerated_vote_count,
              accelerated_vote_count, super_accelerated_vote_count>>

\* the one counter a successful iteration with a non-empty snapshot adds to
C3_TierIndex(first, count) ==
    IF first THEN 1
    ELSE IF count \in 1..4 THEN 2
    ELSE IF count \in 5..9 THEN 3
    ELSE 4

\* C3: a successful iteration with a non-empty snapshot adds one to exactly one
\* tier counter, chosen from the count after the update (standard when the
\* target is first and the count 0, initial 1..4, accelerated 5..9, super from
\* 10), and with Main alone from a count of 0 five not-first iterations and
\* nothing else counted end with count 5, initial 4 and accelerated 1.
C3_TierCounters ==
    [][/\ \A t \in Threads :
             RecordsOutcome(t) /\ success'[t] /\ results'[t] # << >> =>
                LET k == C3_TierIndex(TargetFirst(results'[t]), consecutive_behind_count')
                IN  /\ TargetFirst(results'[t]) => consecutive_behind_count' = 0
                    /\ \A j \in 1..4 :
                          C3_Tiers'[j] = C3_Tiers[j] + (IF j = k THEN 1 ELSE 0)
       /\ (/\ standard_vote_count' = 0
           /\ initial_accelerated_vote_count' + accelerated_vote_count'
                 + super_accelerated_vote_count' = 5)
             => /\ consecutive_behind_count' = 5
                /\ initial_accelerated_vote_count' = 4
                /\ accelerated_vote_count' = 1]_vars

\* five not-first iterations in a row have been counted
C3_Witness ==
    /\ vote_count = 5
    /\ standard_vote_count = 0
    /\ consecutive_behind_count = 5
    /\ initial_accelerated_vote_count = 4
    /\ accelerated_vote_count = 1

\* the multipliers 1.0, 1.5, 2.25, 3.375 and the cap 5.0
C4_Sequence == <<Scale, (3 * Scale) \div 2, (9 * Scale) \div 4, (27 * Scale) \div 8,
                 (MAX_BACKOFF_DELAY \div 60) * Scale>>

\* C4: the multiplier is always between 1.0 and MAX_BACKOFF_DELAY / 60 = 5.0;
\* from 1.0 the above-threshold rounds give 1.5, 2.25, 3.375 and the cap, and a
\* round at the cap leaves it at the cap.
C4_BackoffBounds ==
    [][/\ Scale <= lead_backoff_multiplier'
       /\ lead_backoff_multiplier' <= 5 * Scale
       /\ pc[Main] = "m_backoff" /\ is_lead_high' =>
             \E k \in 1..5 :
                /\ lead_backoff_multiplier = C4_Sequence[k]
                /\ lead_backoff_multiplier' = C4_Sequence[Min(k + 1, 5)]]_vars

\* six rounds above the threshold: the cap was reached and a further round kept it
C4_Witness ==
    /\ vote_count = 6
    /\ standard_vote_count = 6
    /\ pc[Main] = "m_scan_read"
    /\ is_lead_high
    /\ lead_backoff_multiplier = 5 * Scale

\* the margin between the first two entries of a snapshot
C5_Margin(r) == r[1][2] - r[2][2]

\* C5: after an iteration of Main whose snapshot has the target first with a
\* runner-up, a margin of at least lead_threshold makes the multiplier
\* min(old * 1.5, cap) and a smaller margin makes it 1.0; the snapshot
\* (target 35, runner-up 18) has margin 17 and turns 1.0 into 1.5.
C5_BackoffUpdate ==
    [][pc[Main] = "m_backoff" /\ pc'[Main] # "m_backoff"
          /\ TargetFirst(results[Main]) /\ Len(results[Main]) >= 2 =>
       /\ C5_Margin(results[Main]) >= lead_threshold =>
             lead_backoff_multiplier' =
                Min((lead_backoff_multiplier * 3) \div 2, 5 * Scale)
       /\ C5_Margin(results[Main]) < lead_threshold => lead_backoff_multiplier' = Scale
       /\ (/\ results[Main] = <<<<TARGET_ATHLETE, 35>>, <<DylanPapushak, 18>>>>
           /\ lead_backoff_multiplier = Scale)
             => /\ C5_Margin(results[Main]) = 17
                /\ is_lead_high'
                /\ lead_backoff_multiplier' = (3 * Scale) \div 2]_vars

\* the first iteration found (target 35, runner-up 18) and the multiplier is 1.5
C5_Witness ==
    /\ vote_count = 1
    /\ pc[Main] = "m_scan_read"
    /\ results[Main] = <<<<TARGET_ATHLETE, 35>>, <<DylanPapushak, 18>>>>
    /\ lead_backoff_multiplier = (3 * Scale) \div 2

\* Main's pool scan happens in this step
ScanStep == pc[Main] = "m_scan" /\ pc'[Main] # "m_scan"

\* threshold of slot i, the slot with index i - 1 in the source
C6_Threshold(i) == 20 + (10 * (i - 1))

\* C6: the pool scan starts slot i exactly when the slot is inactive and the
\* count read for the scan is at least 20 + 10 * (i - 1): a count of 19 does
\* not start the first slot, 29 does not start the second, and 80 starts the
\* seventh; a started slot is active and has a live thread.
C6_ScanStarts ==
    [][ScanStep =>
       /\ \A i \in Slots :
             (~_parallel_active[i] /\ _parallel_active'[i])
                <=> (~_parallel_active[i] /\ current_behind_count >= C6_Threshold(i))
       /\ \A i \in Slots :
             ~_parallel_active[i] /\ _parallel_active'[i] =>
                pc'[i] \notin {"unborn", "a_done"}
       /\ current_behind_count = 19 /\ ~_parallel_active[1] => ~_parallel_active'[1]
       /\ current_behind_count = 29 /\ ~_parallel_active[2] => ~_parallel_active'[2]
       /\ current_behind_count = 80 /\ ~_parallel_active[7] => _parallel_active'[7]]_vars

\* the scan with a count of 80 has started the seventh slot, and not with 79
C6_Witness ==
    /\ pc[Main] = "m_wait"
    /\ current_behind_count = 80
    /\ _parallel_active[7] /\ pc[7] = "a_loop"

\* C7: without --force-parallel, the pool scan marks inactive every active slot
\* when Main's iteration found the target first or the count read for the scan
\* is below the slot's threshold; a worker marks its own slot inactive and ends
\* when its own iteration found the target first or the count it read is below
\* its threshold.
C7_Stops ==
    [][~_force_parallel_mode =>
       /\ ScanStep =>
             \A i \in Slots :
                /\ _parallel_active[i]
                /\ \/ (success[Main] /\ TargetFirst(results[Main]))
                   \/ current_behind_count < C6_Threshold(i)
                => ~_parallel_active'[i]
       /\ \A i \in Slots :
             /\ pc[i] = "a_after" /\ pc'[i] # "a_after" /\ cutler_ahead[i]
                   => ~_parallel_active'[i] /\ pc'[i] = "a_exit"
             /\ pc[i] = "a_check" /\ pc'[i] # "a_check"
                   /\ current_behind[i] < C6_Threshold(i)
                   => ~_parallel_active'[i] /\ pc'[i] = "a_exit"]_vars

\* the worker has ended with its slot inactive after an iteration that reset the count
C7_Witness ==
    /\ ~_force_parallel_mode
    /\ start_thread_count = 2
    /\ pc[1] = "a_done" /\ ~_parallel_active[1]
    /\ consecutive_behind_count = 0
    /\ vote_count = 2
    /\ pc[Main] = "m_sleep"
    /\ initial_accelerated_vote_count + accelerated_vote_count
          + super_accelerated_vote_count = 1

\* Main is in its loop: it has not reached the handlers of lines 3288-3335
InMainLoop == pc[Main] \notin {"finally", "join", "stats", "done"}

\* C8: with --force-parallel an active slot stays active and its worker goes on
\* until shutdown (the shutdown flag, or Main leaving its loop): neither the
\* target being first nor a count below the threshold, seen by the scan or by
\* the worker, makes the slot inactive or ends the worker.
C8_ForcedStaysActive ==
    [][_force_parallel_mode =>
       \A i \in Slots :
          /\ _parallel_active[i] /\ InMainLoop => _parallel_active'[i]
          /\ _parallel_active[i] /\ is_alive(i) /\ ~shutdown_flag /\ InMainLoop'
                => pc'[i] \notin {"unborn", "a_exit", "a_done"}]_vars

\* forced mode: the worker's own iteration found the target first, the count
\* is 0, and the worker is on its way to its next iteration with its slot active
C8_Witness ==
    /\ _force_parallel_mode
    /\ _parallel_active[1]
    /\ consecutive_behind_count = 0
    /\ pc[1] = "a_sleep"
    /\ standard_vote_count >= 1
    /\ ~shutdown_flag /\ InMainLoop

\* the statement of C9 as written: in every state an active slot has its
\* threshold met by the count, or forced mode is on
C9_Original ==
    \A i \in Slots :
       _parallel_active[i] =>
          consecutive_behind_count >= C6_Threshold(i) \/ _force_parallel_mode

\* C9: when a pool scan of Main ends, every active slot has its threshold met
\* by the count read for that scan, or forced mode is on.  Between scans a slot
\* can be active with the count below its threshold: an iteration resets the
\* count at once, and the slot goes inactive at the next scan or at its
\* worker's next test.
C9_ActiveAfterScan ==
    [][ScanStep =>
       \A i \in Slots :
          _parallel_active'[i] =>
             current_behind_count >= C6_Threshold(i) \/ _force_parallel_mode]_vars

\* a scan has left the slot active on a count that meets the threshold, no forced mode
C9_Witness ==
    /\ ~_force_parallel_mode
    /\ pc[Main] = "m_wait"
    /\ _parallel_active[1]
    /\ current_behind_count >= C6_Threshold(1)

\* the records already in the file, and its summary block
C10_Records(file) ==
    IF file.state = "ok" /\ "votes" \in DOMAIN file THEN file.votes ELSE << >>

C10_Existing(file, f) ==
    IF file.state = "ok" /\ "summary" \in DOMAIN file /\ f \in DOMAIN file.summary
        THEN file.summary[f] ELSE 0

\* whether a record counts for summary field f
C10_Counts(record, f) ==
    LET tier == IF "vote_type" \in DOMAIN record THEN record.vote_type ELSE "standard"
    IN  \/ f = "total_votes_submitted" /\ "success" \in DOMAIN record /\ record.success
        \/ f = "exponential_backoff_votes" /\ "exponential_backoff" \in DOMAIN record
              /\ record.exponential_backoff
        \/ f = "standard_votes" /\ tier = "standard"
        \/ f = "initial_accelerated_votes" /\ tier = "initial_accelerated"
        \/ f = "accelerated_votes" /\ tier = "accelerated"
        \/ f = "super_accelerated_votes" /\ tier = "super_accelerated"

\* the tally of field f replayed from the records
C10_Replayed(records, f) ==
    Cardinality({k \in 1..Len(records) : C10_Counts(records[k], f)})

\* C10: a journal write stores, for each summary field, historical offset +
\* replayed tally + increment of the new record, the offset being
\* max(0, existing field - replayed tally); a journal with total 1000 and one
\* successful record has total 1001 after one more successful record, and its
\* standard 800 becomes 801 when the new record is standard.
C10_SummaryReconciled ==
    [][journal' # journal =>
       LET records == C10_Records(journal)
           new == journal'.votes[Len(journal'.votes)]
       IN  /\ journal'.votes = Append(records, new)
           /\ \A f \in SummaryFields :
                 LET before == C10_Replayed(records, f)
                     existing == C10_Existing(journal, f)
                     offset == IF existing > before THEN existing - before ELSE 0
                 IN  journal'.summary[f]
                        = offset + before + (IF C10_Counts(new, f) THEN 1 ELSE 0)
           /\ (/\ C10_Existing(journal, "total_votes_submitted") = 1000
               /\ Len(records) = 1 /\ C10_Counts(records[1], "total_votes_submitted")
               /\ new.success)
                 => journal'.summary["total_votes_submitted"] = 1001
           /\ (/\ C10_Existing(journal, "standard_votes") = 800
               /\ Len(records) = 1
               /\ new.vote_type = "standard")
                 => journal'.summary["standard_votes"] = 801]_vars

\* the journal with summary total 1000 and standard 800 after a second
\* successful standard record
C10_Witness ==
    /\ journal.state = "ok"
    /\ Len(journal.votes) = 2
    /\ journal.votes[1].success /\ journal.votes[2].success
    /\ journal.votes[2].vote_type = "standard"
    /\ journal.summary["total_votes_submitted"] = 1001
    /\ journal.summary["standard_votes"] = 801
    /\ journal.summary["accelerated_votes"] = 50

\* how many times the entry e occurs in the list of entries
C11_Occurrences(entries, e) == Cardinality({k \in 1..Len(entries) : entries[k] = e})

\* C11: whatever the journal held before, a write leaves every summary field
\* at least at its old value plus the new entry's contribution, and adds the
\* contribution once to the larger of the old value and the replayed tally;
\* the entry list grows by exactly the new entry, which is there once more
\* than before.
C11_SummaryMonotone ==
    [][journal' # journal =>
       LET records == C10_Records(journal)
           new == journal'.votes[Len(journal'.votes)]
       IN  /\ Len(journal'.votes) = Len(records) + 1
           /\ \A k \in 1..Len(records) : journal'.votes[k] = records[k]
           /\ C11_Occurrences(journal'.votes, new) = C11_Occurrences(records, new) + 1
           /\ \A f \in SummaryFields :
                 LET add == IF C10_Counts(new, f) THEN 1 ELSE 0
                     old == C10_Existing(journal, f)
                     replayed == C10_Replayed(records, f)
                 IN  /\ journal'.summary[f] >= old
                     /\ journal'.summary[f] >= old + add
                     /\ journal'.summary[f] = add + (IF old >= replayed THEN old ELSE replayed)]_vars

\* a failed entry has been appended to a journal whose summary was above the
\* tally of its one entry: the total stays and the tier of the failed entry counts
C11_Witness ==
    /\ journal.state = "ok"
    /\ Len(journal.votes) = 2
    /\ ~journal.votes[2].success
    /\ journal.votes[2].vote_type = "accelerated"
    /\ journal.summary["total_votes_submitted"] = 1000
    /\ journal.summary["accelerated_votes"] = 51

\* the threads whose call of log_vote_to_json has returned
C12_Logged == {t \in Threads : pc[t] \in {"verify", "a_after"}}

\* the threads inside the locked block of log_vote_to_json
C12_Inside == {t \in Threads : pc[t] \in {"j_read", "j_write"}}

\* the positions in the journal of the entry of thread t's call
C12_EntriesOf(t) ==
    {k \in 1..Len(journal.votes) :
        /\ journal.votes[k].vote_number = current_vote_num[t]
        /\ journal.votes[k].thread_id = thread_id(t)
        /\ journal.votes[k].success = success[t]}

\* C12: when the threads call log_vote_to_json at once, in any interleaving
\* the journal holds, beyond what it held, exactly one entry per returned call
\* and none of a call that has not written, its total has grown by the number
\* of successful entries among them, and at most one thread at a time is
\* inside the read-modify-write, the one that holds the lock.
C12_SerializedWrites ==
    /\ Cardinality(C12_Inside) <= 1
    /\ \A t \in C12_Inside : _json_log_lock = Some(t)
    /\ Len(journal.votes) = 1 + Cardinality(C12_Logged)
    /\ \A t \in Threads :
          Cardinality(C12_EntriesOf(t)) = (IF t \in C12_Logged THEN 1 ELSE 0)
    /\ journal.summary["total_votes_submitted"]
          = 1 + Cardinality({t \in C12_Logged : success[t]})

\* every call has returned; one entry was a failure and the others successes
C12_Witness ==
    /\ C12_Logged = Threads
    /\ Len(journal.votes) = 1 + LogThreads
    /\ Cardinality({t \in Threads : success[t]}) = LogThreads - 1
    /\ journal.summary["total_votes_submitted"] = LogThreads

\* C13: startup with 1 <= K <= max_threads requested workers seeds
\* consecutive_behind_count with 20 + 10 * (K - 2) for K >= 2, so 20 for 2, 30
\* for 3 and 80 for 8, and with 0 for K = 1.
C13_Seed ==
    [][pc[Main] = "start" /\ start_thread_count \in 1..max_threads =>
       /\ pc'[Main] = "loop"
       /\ start_thread_count = 1 => consecutive_behind_count' = 0
       /\ start_thread_count >= 2 =>
             consecutive_behind_count' = 20 + (10 * (start_thread_count - 2))
       /\ start_thread_count = 2 => consecutive_behind_count' = 20
       /\ start_thread_count = 3 => consecutive_behind_count' = 30
       /\ start_thread_count = 8 => consecutive_behind_count' = 80]_vars

\* started with --start-threads 8 --max-threads 8: the count is 80
C13_Witness ==
    /\ pc[Main] = "loop"
    /\ start_thread_count = 8 /\ max_threads = 8
    /\ consecutive_behind_count = 80
    /\ delay_parallel_startup

\* the count startup seeds for --start-threads K
C14_Seed == IF start_thread_count >= 2 THEN 20 + (10 * (start_thread_count - 2)) ELSE 0

\* Main is in its first iteration
C14_FirstIteration == ~_first_vote_completed /\ vote_count <= 1

\* Main's iteration has recorded a successful submission with the target not first
C14_NotFirstRecorded ==
    /\ pc[Main] \in {"log_read", "log"}
    /\ success[Main] /\ results[Main] # << >> /\ ~TargetFirst(results[Main])

\* the statement of C14 as written: through Main's first iteration the count is
\* unseeded, and a not-first result is counted as in a run without --start-threads
C14_Original ==
    C14_FirstIteration =>
       /\ pc[Main] \in {"loop", "iter", "submit"} => consecutive_behind_count = 0
       /\ C14_NotFirstRecorded =>
             consecutive_behind_count = 1 /\ vote_type[Main] = "initial_accelerated"

\* C14: what is deferred until Main's first iteration has completed is the
\* start of the workers, not the seed: through the first iteration no slot is
\* active and no worker exists, while the count is seeded from startup on, so
\* that a not-first result in the first iteration gives seed + 1, the tier of
\* that count and an audit entry with that count.
C14_WorkersDeferredSeedAtStartup ==
    C14_FirstIteration =>
       /\ \A i \in Slots : ~_parallel_active[i] /\ pc[i] = "unborn"
       /\ pc[Main] \in {"loop", "iter", "submit"} => consecutive_behind_count = C14_Seed
       /\ C14_NotFirstRecorded =>
             /\ consecutive_behind_count = C14_Seed + 1
             /\ vote_type[Main] = (IF C14_Seed + 1 >= 10 THEN "super_accelerated"
                                   ELSE "initial_accelerated")
             /\ pc[Main] = "log" =>
                   /\ vote_entry(Main).consecutive_behind_count = C14_Seed + 1
                   /\ vote_entry(Main).vote_number = 1

\* --start-threads 2: the first iteration found the target second and is about
\* to log count 21 in the super tier, with no worker started yet
C14_Witness ==
    /\ start_thread_count = 2
    /\ C14_FirstIteration
    /\ C14_NotFirstRecorded /\ pc[Main] = "log"
    /\ consecutive_behind_count = 21
    /\ vote_type[Main] = "super_accelerated"
    /\ pc[1] = "unborn"

\* the tier that goes with a count
C15_TierOf(count) ==
    IF count = 0 THEN "standard"
    ELSE IF count \in 1..4 THEN "initial_accelerated"
    ELSE IF count \in 5..9 THEN "accelerated"
    ELSE "super_accelerated"

\* C15: a failed submission leaves consecutive_behind_count and the four tier
\* counters as they are; the iteration appends exactly one journal entry, with
\* success false, cutler_ahead false, no position and no percentage, and the
\* tier of the current count; and Main goes on to its wait, the standard one,
\* and to its sleep.
C15_FailedSubmission ==
    [][/\ RecordsOutcome(Main) /\ ~success'[Main] =>
             /\ consecutive_behind_count' = consecutive_behind_count
             /\ C3_Tiers' = C3_Tiers
             /\ vote_type'[Main] = C15_TierOf(consecutive_behind_count)
       /\ pc[Main] = "log" /\ pc'[Main] # "log" /\ ~success[Main] =>
             LET before == C10_Records(journal)
                 entry == journal'.votes[Len(journal'.votes)]
             IN  /\ journal'.votes = Append(before, entry)
                 /\ entry.vote_number = current_vote_num[Main]
                 /\ entry.success = FALSE
                 /\ entry.cutler_ahead = FALSE
                 /\ entry.cutler_position = None
                 /\ entry.cutler_percentage = None
                 /\ entry.vote_type = C15_TierOf(consecutive_behind_count)
                 /\ journal'.summary["total_votes_submitted"]
                       = C10_Existing(journal, "total_votes_submitted")
       /\ pc[Main] # "log" => journal' = journal
       /\ pc[Main] = "m_backoff" /\ ~success[Main] => pc'[Main] # "finally"
       /\ pc[Main] = "m_wait" /\ pc'[Main] # "m_wait" /\ ~success[Main] =>
             pc'[Main] = "m_sleep" /\ wait_range' = <<53, 67>>]_vars

\* five iterations found the target second and the sixth failed: its entry is
\* in the accelerated tier and the count is still 5
C15_Witness ==
    /\ journal.state = "ok"
    /\ Len(journal.votes) = 6
    /\ ~journal.votes[6].success
    /\ journal.votes[6].vote_type = "accelerated"
    /\ journal.summary["total_votes_submitted"] = 5
    /\ consecutive_behind_count = 5
    /\ accelerated_vote_count = 1
    /\ pc[Main] = "m_sleep"

\* C16: a successful submission whose result page gives no entries (or is
\* missing, or cannot be read) is recorded in the standard tier: the standard
\* counter goes up by one, the other tier counters and
\* consecutive_behind_count stay as they are, and the iteration returns
\* cutler_ahead false.
C16_EmptySnapshot ==
    [][\A t \in Threads :
          RecordsOutcome(t) /\ success'[t] /\ results'[t] = << >> =>
             /\ vote_type'[t] = "standard"
             /\ standard_vote_count' = standard_vote_count + 1
             /\ initial_accelerated_vote_count' = initial_accelerated_vote_count
             /\ accelerated_vote_count' = accelerated_vote_count
             /\ super_accelerated_vote_count' = super_accelerated_vote_count
             /\ consecutive_behind_count' = consecutive_behind_count
             /\ ~cutler_ahead'[t]]_vars

\* after three iterations with the target second, an empty result page: the
\* count is still 3 and the standard counter is 1
C16_Witness ==
    /\ pc[Main] = "log"
    /\ success[Main] /\ results[Main] = << >>
    /\ vote_type[Main] = "standard"
    /\ vote_count = 4
    /\ consecutive_behind_count = 3
    /\ initial_accelerated_vote_count = 3
    /\ standard_vote_count = 1

\* the statement of C17 as written: with the shutdown flag set, no thread
\* takes a new attempt number
C17_Original ==
    [][shutdown_flag => \A t \in Threads : ~StartsIteration(t)]_vars

\* C17: once the shutdown flag is set no thread passes its loop test again: a
\* test made with the flag set ends the loop, a sleep that ends leads to the
\* test, and after an iteration no wait is begun, so the test comes next.  A
\* thread that had passed its test before the flag was set still runs that one
\* iteration, which may take its attempt number after the flag is set.
C17_NoNewLoopPass ==
    [][shutdown_flag =>
       /\ pc[Main] = "loop" => pc'[Main] \in {"loop", "finally"}
       /\ pc[Main] = "m_sleep" => pc'[Main] \in {"m_sleep", "loop"}
       /\ pc[Main] = "m_scan" => pc'[Main] \in {"m_scan", "loop"}
       /\ \A i \in Slots :
             /\ pc[i] = "a_loop" => pc'[i] \in {"a_loop", "a_exit"}
             /\ pc[i] = "a_sleep" => pc'[i] \in {"a_sleep", "a_loop"}
             /\ pc[i] = "a_after" => pc'[i] \in {"a_after", "a_loop", "a_exit"}
       /\ \A t \in Threads :
             StartsIteration(t) => pc[t] = "iter" /\ current_vote_num[t] = 0]_vars

\* the flag is set, the worker has left its loop with its slot still active,
\* and Main, which had passed its test, has just taken attempt number 3
C17_Witness ==
    /\ shutdown_flag
    /\ pc[1] = "a_done" /\ _parallel_active[1]
    /\ pc[Main] = "submit" /\ current_vote_num[Main] = 3

\* the threads that have passed their loop test and not yet taken their attempt number
C18_AboutToVote == {t \in Threads : pc[t] \in {"iter", "a_read", "a_check"}}

\* the flag is set and every iteration already under way is within the bound on attempts
C18_ShutdownRequested ==
    shutdown_flag /\ vote_count + Cardinality(C18_AboutToVote) <= MaxLiveVotes

\* the final statistics have been read
C18_StatisticsRead == pc[Main] = "done"

\* the statement of C18 as written: after the flag is set Main leaves its
\* loop, every slot is inactive and every worker has ended, and the final
\* statistics are read only with every worker ended
C18_Original ==
    /\ C18_ShutdownRequested ~>
          (/\ ~InMainLoop
           /\ \A i \in 1..1 : ~_parallel_active[i] /\ pc[i] \in {"unborn", "a_done"})
    /\ [](C18_StatisticsRead => \A i \in 1..1 : pc[i] \in {"unborn", "a_done"})

\* C18: after the flag is set, with every submission returning and fair
\* scheduling, Main leaves its loop, sets every slot inactive, waits for the
\* workers no longer than the timeout of its join, and reads the final
\* statistics; the slots are inactive whenever the statistics are read.  A
\* worker whose iteration outlasts the join is still running at that time.
C18_ShutdownCompletes ==
    /\ C18_ShutdownRequested ~>
          (C18_StatisticsRead /\ \A i \in 1..1 : ~_parallel_active[i])
    /\ [](pc[Main] \in {"join", "stats", "done"} => \A i \in 1..1 : ~_parallel_active[i])

\* after a shutdown the final statistics have been read while the worker is
\* still inside its submission
C18_Witness ==
    /\ shutdown_flag
    /\ C18_StatisticsRead
    /\ ~_parallel_active[1]
    /\ pc[1] = "submit"

\* upper case of the letters that occur in the names
C19_Upper1(c) ==
    CASE c = "c" -> "C" [] c = "u" -> "U" [] c = "t" -> "T" [] c = "l" -> "L"
      [] c = "e" -> "E" [] c = "r" -> "R" [] c = "w" -> "W" [] c = "h" -> "H"
      [] c = "i" -> "I" [] c = "a" -> "A" [] c = "k" -> "K" [] c = "d" -> "D"
      [] c = "y" -> "Y" [] c = "n" -> "N" [] c = "p" -> "P" [] c = "s" -> "S"
      [] c = "j" -> "J"
      [] OTHER -> c

C19_Upper(s) == [k \in 1..Len(s) |-> C19_Upper1(s[k])]

\* sub occurs in s, whatever the case of the letters of either
C19_Occurs(s, sub) ==
    \E k \in 1..Len(s) :
        /\ k + Len(sub) - 1 <= Len(s)
        /\ SubSeq(C19_Upper(s), k, k + Len(sub) - 1) = C19_Upper(sub)

\* S is non-empty and the name of its top entry contains the full name of the
\* target or both tokens of it
C19_Expected(S) ==
    /\ Len(S) >= 1
    /\ \/ C19_Occurs(S[1][1], TARGET_ATHLETE)
       \/ /\ C19_Occurs(S[1][1], SubSeq(TARGET_ATHLETE, 1, 6))
          /\ C19_Occurs(S[1][1], SubSeq(TARGET_ATHLETE, 8, 15))

\* the result pages of NameSnapshots on which the target is first
C19_TargetFirstSnapshots ==
    {SnapLeadHigh, SnapLeadLow, SnapAlone, SnapUpperAtThreshold,
     SnapSeniorUnderThreshold, SnapReversedTokens, SnapTokensApartTied,
     SnapUpperAlone}

\* C19: is_cutler_ahead(S) is true exactly when S is non-empty and the name of
\* its top entry, compared without regard to case, contains the target's full
\* name or both of its tokens; it is false for an empty snapshot and when the
\* target appears only below first place.  The same holds of the cutler_ahead
\* an iteration records for the page it has read.
C19_TargetFirst ==
    /\ \A S \in NameSnapshots :
          /\ is_cutler_ahead(S) = C19_Expected(S)
          /\ is_cutler_ahead(S) = (S \in C19_TargetFirstSnapshots)
    /\ ~is_cutler_ahead(SnapEmpty)
    /\ ~is_cutler_ahead(SnapOtherWhitaker)
    /\ results[Main] \in NameSnapshots
    /\ cutler_ahead[Main] = (success[Main] /\ C19_Expected(results[Main]))

\* an iteration has read a page whose first name has the two tokens in the
\* other order, and another a page with one token first and the target second
C19_Witness ==
    /\ pc[Main] = "log"
    /\ \/ results[Main] = SnapReversedTokens /\ cutler_ahead[Main]
       \/ results[Main] = SnapOtherWhitaker /\ ~cutler_ahead[Main]
    /\ vote_count = MaxNameVotes

C20_Thresholds == {0, 14, lead_threshold, 16, 30}

\* the pair the lead of S against threshold should be
C20_Expected(S, threshold) ==
    IF Len(S) >= 2 /\ C19_Expected(S)
       THEN <<Some(S[1][2] - S[2][2]), ~(S[1][2] - S[2][2] < threshold)>>
       ELSE <<None, FALSE>>

\* Main has made the backoff update of its iteration and not yet read another page
C20_AfterUpdate == pc[Main] \in {"m_scan_read", "m_scan", "m_wait", "m_sleep"}

\* C20: get_cutler_lead_percentage(S, threshold) is (top percentage - second
\* percentage, lead >= threshold) when S has at least two entries and the
\* target is first, a lead equal to the threshold counting as above; in every
\* other case, target first with a single entry and target not first included,
\* it is (None, False).  The is_lead_high of the backoff update is that flag.
C20_LeadMargin ==
    /\ \A S \in NameSnapshots : \A threshold \in C20_Thresholds :
          get_cutler_lead_percentage(S, threshold) = C20_Expected(S, threshold)
    /\ get_cutler_lead_percentage(SnapUpperAtThreshold, lead_threshold)
          = <<Some(lead_threshold), TRUE>>
    /\ get_cutler_lead_percentage(SnapUpperAlone, lead_threshold) = <<None, FALSE>>
    /\ get_cutler_lead_percentage(SnapOtherWhitaker, lead_threshold) = <<None, FALSE>>
    /\ C20_AfterUpdate =>
          is_lead_high = C20_Expected(results[Main], lead_threshold)[2]

\* the backoff update has seen a lead equal to the threshold and raised the multiplier
C20_Witness ==
    /\ pc[Main] = "m_scan_read"
    /\ results[Main] = SnapUpperAtThreshold
    /\ results[Main][1][2] - results[Main][2][2] = lead_threshold
    /\ is_lead_high
    /\ lead_backoff_multiplier > Scale

\* C21: a journal write that finds the file absent or corrupt writes a fresh
\* journal holding exactly the new record, each summary field equal to what
\* that record contributes and session_start equal to the record's timestamp;
\* a write that finds a readable journal keeps its records in their order and
\* its session_start and puts the new record at the end.
C21_FreshOrAppended ==
    [][journal' # journal =>
       LET new == journal'.votes[Len(journal'.votes)]
       IN  /\ journal'.state = "ok"
           /\ journal.state \in {"absent", "corrupt"} =>
                 /\ journal'.votes = <<new>>
                 /\ journal'.session_start = new.timestamp
                 /\ \A f \in SummaryFields :
                       journal'.summary[f] = (IF C10_Counts(new, f) THEN 1 ELSE 0)
           /\ journal.state = "ok" =>
                 /\ Len(journal'.votes) = Len(C10_Records(journal)) + 1
                 /\ \A k \in 1..Len(C10_Records(journal)) :
                       journal'.votes[k] = C10_Records(journal)[k]
                 /\ "session_start" \in DOMAIN journal =>
                       journal'.session_start = journal.session_start]_vars

\* a corrupt or absent file was replaced by a journal of one failed record, and
\* a second record was then appended to it with session_start kept
C21_Witness ==
    /\ journal.state = "ok"
    /\ Len(journal.votes) = 2
    /\ "timestamp" \in DOMAIN journal.votes[1]
    /\ journal.session_start = journal.votes[1].timestamp
    /\ journal.session_start # journal.votes[2].timestamp
    /\ ~journal.votes[1].success
    /\ journal.summary["total_votes_submitted"] = 0

\* thread t is at a "with" statement whose lock another thread or t itself holds
C22_Waiting(t) ==
    /\ PendingLockOps(t) # << >>
    /\ Head(PendingLockOps(t))[1] = "acquire"
    /\ lock_holder[Head(PendingLockOps(t))[2]] # None

\* C22: no thread holds two of _counter_lock, lead_backoff_lock and
\* _parallel_voting_lock at a time, and no thread that holds one of them is at
\* a "with" statement of another, so no cycle of threads waiting for each
\* other's locks is reachable.
C22_OneCoreLock ==
    \A t \in Threads :
        /\ Cardinality(HeldLocks(t)) <= 1
        /\ HeldLocks(t) # {} =>
              /\ PendingLockOps(t) # << >>
              /\ Head(PendingLockOps(t)) = <<"release", CHOOSE l \in HeldLocks(t) : TRUE>>
        /\ C22_Waiting(t) => HeldLocks(t) = {}

\* Main is inside the block of line 3242 with lead_backoff_lock, having left
\* the block of line 3238, while the worker is inside a block with _counter_lock
C22_Witness ==
    /\ pc[Main] = "m_wait"
    /\ lock_holder["lead_backoff_lock"] = Some(Main)
    /\ lock_holder["_counter_lock"] = Some(1)
    /\ lock_holder["_parallel_voting_lock"] = None

\* Main makes the marker check of lines 2747-2755 in this step
C23_MarkerCheck == pc[Main] = "verify" /\ pc'[Main] # "verify"

\* C23: the marker _last_verification_vote_count is changed only by Main's
\* marker check, never by a step of a worker; the check and the change are one
\* step under _counter_lock; the marker is set to the value vote_count has at
\* that moment, which is 1 or a multiple of 500 and above the marker's old
\* value, so no value of the count is verified twice.
C23_VerificationOnce ==
    [][/\ _last_verification_vote_count' # _last_verification_vote_count =>
             /\ C23_MarkerCheck
             /\ _last_verification_vote_count' = vote_count
             /\ vote_count' = vote_count
             /\ vote_count = 1 \/ vote_count % VerificationInterval = 0
             /\ _last_verification_vote_count' > _last_verification_vote_count
       /\ \A i \in Slots :
             (pc'[i] # pc[i] /\ pc'[Main] = pc[Main]) =>
                _last_verification_vote_count' = _last_verification_vote_count]_vars

\* Main has verified at the first multiple of 500, reached by the worker's attempt
C23_Witness ==
    /\ _last_verification_vote_count = VerificationInterval
    /\ vote_count = VerificationInterval
    /\ current_vote_num[1] = VerificationInterval
    /\ pc[Main] = "m_delay"

\* the last threshold the count has reached: 1, or the last multiple of 500
C24_LastCrossing(count) ==
    IF count >= VerificationInterval
       THEN (count \div VerificationInterval) * VerificationInterval
       ELSE IF count >= 1 THEN 1 ELSE 0

\* C24: after every marker check of Main the threshold the count reached last
\* has been verified, whichever thread made the count reach it.
C24_EveryCrossingVerified ==
    [][C23_MarkerCheck =>
          _last_verification_vote_count' = C24_LastCrossing(vote_count)]_vars

\* Main creates and starts a thread for slot i in this step (3169-3173, 3220-3224)
C25_Spawns(i) == pc'[Main] # pc[Main] /\ pc'[i] # pc[i]

\* C25: a thread is created for a slot only when the slot has no thread or its
\* thread has ended, at the deferred startup as well as at a pool scan, so no
\* slot ever has two live threads; the new thread begins at its loop test.
C25_OneThreadPerSlot ==
    [][\A i \in Slots :
          C25_Spawns(i) => pc[i] \in {"unborn", "a_done"} /\ pc'[i] = "a_loop"]_vars

\* the slot, stopped earlier, has been started again by a scan that found the
\* count at the threshold, and its thread is at its loop test
C25_Witness ==
    /\ vote_count > PoolStart
    /\ pc[Main] = "m_wait"
    /\ consecutive_behind_count >= _parallel_thresholds[1]
    /\ _parallel_active[1]
    /\ pc[1] = "a_loop"
    /\ current_vote_num[1] = 0

\* C26: before shutdown every active slot has a live thread that has not left
\* its loop.
C26_ActiveSlotServed ==
    \A i \in Slots :
        (_parallel_active[i] /\ ~shutdown_flag /\ InMainLoop) =>
            pc[i] \notin {"unborn", "a_exit", "a_done"}

\* C27: a worker exists only after Main's first perform_vote_iteration has
\* returned: by then the first attempt has been logged to the journal and
\* _first_vote_completed is set.  Attempt number 1 is Main's, the first record
\* of the journal is Main's record of attempt 1, and no worker holds an
\* attempt number or is inside an iteration before that.
C27_WorkersAfterFirstIteration ==
    /\ \A i \in Slots :
          pc[i] # "unborn" =>
             /\ _first_vote_completed
             /\ vote_count >= 1
             /\ journal.state = "ok"
    /\ \A t \in Threads : current_vote_num[t] = 1 => t = Main
    /\ \A i \in Slots : ~_first_vote_completed => current_vote_num[i] = 0
    /\ journal.state = "ok" =>
          /\ journal.votes[1].thread_id = thread_id(Main)
          /\ journal.votes[1].vote_number = 1

\* the worker is inside its first submission with attempt 2, the journal
\* holding Main's record of attempt 1 and nothing else
C27_Witness ==
    /\ pc[1] = "submit"
    /\ current_vote_num[1] = 2
    /\ journal.state = "ok"
    /\ Len(journal.votes) = 1
    /\ journal.votes[1].thread_id = thread_id(Main)

\* the flag the claim expects in the record of thread t's iteration: target
\* first, a lead margin, and the multiplier of the iteration's start above 1.0
C28_Expected(t) ==
    /\ cutler_ahead[t]
    /\ lead_percentage[t] # None
    /\ backoff_at_start[t] # None
    /\ backoff_at_start[t][1] > Scale

\* C28: the record of every iteration of every thread carries
\* exponential_backoff = TRUE exactly when the target is first, the lead margin
\* is not null and the multiplier as it stood when the iteration began exceeds
\* 1.0.
C28_FlagFromIterationStart ==
    \A t \in Threads :
       pc[t] = "log" => (vote_entry(t).exponential_backoff <=> C28_Expected(t))

\* C28, as the code has it: the flag is the multiplier at the read of line 2708
\* (FALSE without a read); for Main, the only writer of the multiplier, that is
\* the multiplier of the iteration's start, so that Main's first iteration
\* over the threshold is recorded with FALSE.
C28_FlagFromRead ==
    [][/\ pc[Main] = "log" /\ pc'[Main] # "log" =>
             (vote_entry(Main).exponential_backoff <=> C28_Expected(Main))
       /\ \A t \in Threads :
             /\ pc[t] = "backoff_read" /\ pc'[t] # "backoff_read" =>
                   is_backoff_active'[t] = (lead_backoff_multiplier > Scale)
             /\ pc[t] = "submit" /\ pc'[t] = "log_read" =>
                   /\ ~is_backoff_active'[t]
                   /\ ~(cutler_ahead'[t] /\ lead_percentage'[t] # None)
             /\ pc[t] = "log" /\ pc'[t] # "log" =>
                   vote_entry(t).exponential_backoff = is_backoff_active[t]]_vars

\* Main logs an iteration that began with the multiplier at 1.5: the record
\* says TRUE
C28_Witness ==
    /\ pc[Main] = "log"
    /\ vote_entry(Main).exponential_backoff
    /\ backoff_at_start[Main] = Some((Scale * 3) \div 2)
    /\ lead_percentage[Main] # None

\* C29: lead_backoff_multiplier changes only in Main's backoff update, and only
\* when the iteration Main has just run was a success with a non-empty snapshot
\* and the target first.  Steps of the workers, and Main's update after a
\* failed submission, an empty snapshot or a snapshot with the target not
\* first, leave it as it is, whatever its value.
C29_MultiplierFrame ==
    [][/\ lead_backoff_multiplier' # lead_backoff_multiplier =>
             /\ pc[Main] = "m_backoff" /\ pc'[Main] # "m_backoff"
             /\ success[Main] /\ results[Main] # << >> /\ cutler_ahead[Main]
       /\ (\E i \in Slots : pc'[i] # pc[i]) =>
             lead_backoff_multiplier' = lead_backoff_multiplier
       /\ /\ pc[Main] = "m_backoff" /\ pc'[Main] # "m_backoff"
          /\ ~(success[Main] /\ results[Main] # << >> /\ cutler_ahead[Main])
          => lead_backoff_multiplier' = lead_backoff_multiplier]_vars

\* Main's update has just passed a round with the target not first, the
\* multiplier still at 1.5
C29_Witness ==
    /\ pc[Main] = "m_scan_read"
    /\ results[Main] # << >>
    /\ ~cutler_ahead[Main]
    /\ lead_backoff_multiplier = (Scale * 3) \div 2

\* Main's step from the choice of the wait to the sleep, in the standard tier
\* (target first, or no snapshot)
C30_StandardWait ==
    /\ pc[Main] = "m_wait" /\ pc'[Main] = "m_sleep"
    /\ ~(results[Main] # << >> /\ ~cutler_ahead[Main])

\* the values the multiplier takes: 1, 1.5, 2.25, 3.375 and 5
C30_Multipliers == {Scale, 24, 36, 54, 5 * Scale}

\* C30, as claimed: in the standard tier the wait is
\* min(round(drawn * multiplier), 300) for a drawn wait of 53..67 and a
\* multiplier of 1, 1.5, 2.25, 3.375 or 5; it is at least the drawn wait, at
\* most 300, and the drawn wait itself at 1.0.
C30_Original ==
    [][C30_StandardWait =>
          /\ lead_backoff_multiplier \in C30_Multipliers
          /\ \E drawnWait \in 53..67 :
                /\ wait_range' = <<Min(Round(drawnWait * lead_backoff_multiplier),
                                       MAX_BACKOFF_DELAY),
                                   Min(Round(drawnWait * lead_backoff_multiplier),
                                       MAX_BACKOFF_DELAY)>>
                /\ wait_range'[1] >= drawnWait
                /\ wait_range'[1] <= MAX_BACKOFF_DELAY
                /\ lead_backoff_multiplier = Scale => wait_range'[1] = drawnWait]_vars

\* C30, amended: in the standard tier the wait is
\* min(floor(drawn * multiplier), 300) when this iteration's lead is at or
\* above the threshold and the multiplier exceeds 1.0, and the drawn wait
\* otherwise (a multiplier above 1.0 carried through a round without snapshot
\* does not count); the drawn wait is in 53..67 and the multiplier one of 1,
\* 1.5, 2.25, 3.375 and 5; the wait is at least the drawn wait, at most 300,
\* and the drawn wait itself at 1.0.
C30_EffectiveWait ==
    [][C30_StandardWait =>
          /\ lead_backoff_multiplier \in C30_Multipliers
          /\ \E drawnWait \in 53..67 :
                /\ wait_range'[1] =
                      IF is_lead_high /\ lead_backoff_multiplier > Scale
                         THEN Min((drawnWait * lead_backoff_multiplier) \div Scale,
                                  MAX_BACKOFF_DELAY)
                      ELSE drawnWait
                /\ wait_range'[2] = wait_range'[1]
                /\ wait_range'[1] >= drawnWait
                /\ wait_range'[1] <= MAX_BACKOFF_DELAY
                /\ lead_backoff_multiplier = Scale => wait_range'[1] = drawnWait]_vars

\* Main sleeps 79 s: a drawn wait of 53 s at a multiplier of 1.5 (79.5)
C30_Witness ==
    /\ pc[Main] = "m_sleep"
    /\ lead_backoff_multiplier = 24
    /\ wait_range = <<79, 79>>

\* Main's step from the choice of the wait (the count is read in it) to the sleep
C31_ChoosesWait == pc[Main] = "m_wait" /\ pc'[Main] = "m_sleep"

\* C31, as claimed: the range of the wait is a function of the count Main reads:
\* [14,37] exactly at 1..4, [7,16] exactly at 5..9, [3,10] exactly from 10,
\* and with the target first the count is 0 and the range none of those.
C31_Original ==
    [][C31_ChoosesWait =>
          /\ (wait_range' = <<14, 37>>) <=>
                (consecutive_behind_count >= 1 /\ consecutive_behind_count <= 4)
          /\ (wait_range' = <<7, 16>>) <=>
                (consecutive_behind_count >= 5 /\ consecutive_behind_count <= 9)
          /\ (wait_range' = <<3, 10>>) <=> consecutive_behind_count >= 10
          /\ cutler_ahead[Main] =>
                /\ consecutive_behind_count = 0
                /\ wait_range' \notin {<<14, 37>>, <<7, 16>>, <<3, 10>>}]_vars

\* C31, amended: the tier table is applied to the count Main reads only when
\* Main's own iteration returned a snapshot with the target not first: [3,10]
\* from 10, [7,16] at 5..9, [14,37] below 5 (0 included, when a worker has
\* reset the count since).  After any other iteration (target first, no
\* snapshot, failed submission) the wait is drawn from [53,67], lengthened by
\* the backoff only, whatever the count.
C31_WaitRange ==
    [][C31_ChoosesWait =>
          IF results[Main] # << >> /\ ~cutler_ahead[Main]
             THEN /\ consecutive_behind_count >= 10 => wait_range' = <<3, 10>>
                  /\ consecutive_behind_count >= 5 /\ consecutive_behind_count <= 9 =>
                        wait_range' = <<7, 16>>
                  /\ consecutive_behind_count <= 4 => wait_range' = <<14, 37>>
             ELSE /\ wait_range'[1] >= 53 /\ wait_range'[2] >= 67
                  /\ ~is_lead_high => wait_range' = <<53, 67>>]_vars

\* Main sleeps in the range [7,16] with the count at 5, its lower boundary
C31_Witness ==
    /\ pc[Main] = "m_sleep"
    /\ wait_range = <<7, 16>>
    /\ consecutive_behind_count = 5

\* the last record of the journal written by the thread of that name
C32_LastRecord(name) ==
    LET ks == {k \in 1..Len(journal.votes) : journal.votes[k].thread_id = name}
    IN  journal.votes[CHOOSE k \in ks : \A j \in ks : j <= k]

\* thread t has written a record, its last one for a success with a snapshot
C32_Recorded(t) ==
    /\ journal.state = "ok"
    /\ \E k \in 1..Len(journal.votes) : journal.votes[k].thread_id = thread_id(t)
    /\ C32_LastRecord(thread_id(t)).success
    /\ C32_LastRecord(thread_id(t)).cutler_position # None

\* C32, as claimed: after a successful iteration with a snapshot, the tier of
\* the iteration's record (the tier counted) is the tier of the range the same
\* thread draws its next wait from.
C32_Original ==
    [][/\ C31_ChoosesWait /\ C32_Recorded(Main) =>
             C32_LastRecord(thread_id(Main)).vote_type = RangeTier(wait_range')
       /\ \A i \in Slots :
             pc[i] = "a_after" /\ pc'[i] = "a_sleep" /\ C32_Recorded(i) =>
                C32_LastRecord(thread_id(i)).vote_type = RangeTier(AuxWaitRange)]_vars

\* C32, amended: after a successful iteration of Main with a snapshot the
\* record says standard and the wait is drawn from the standard range when the
\* target was first; otherwise the record names one of the three accelerated
\* tiers and the wait is drawn from one of the three accelerated ranges, the
\* range of the recorded tier as long as no worker thread has been created (a
\* worker can move the count between Main's update and Main's read).  A worker
\* draws from [3,10] whatever its record says.
C32_TierAndWait ==
    [][C31_ChoosesWait /\ C32_Recorded(Main) =>
          IF cutler_ahead[Main]
             THEN /\ C32_LastRecord(thread_id(Main)).vote_type = "standard"
                  /\ RangeTier(wait_range') = "standard"
             ELSE /\ C32_LastRecord(thread_id(Main)).vote_type # "standard"
                  /\ RangeTier(wait_range') # "standard"
                  /\ (\A i \in Slots : pc[i] = "unborn") =>
                        C32_LastRecord(thread_id(Main)).vote_type = RangeTier(wait_range')]_vars

\* Main sleeps in the range [3,10] after an iteration recorded as super accelerated
C32_Witness ==
    /\ pc[Main] = "m_sleep"
    /\ wait_range = <<3, 10>>
    /\ journal.state = "ok"
    /\ \E k \in 1..Len(journal.votes) : journal.votes[k].thread_id = thread_id(Main)
    /\ C32_LastRecord(thread_id(Main)).vote_type = "super_accelerated"
    /\ C32_LastRecord(thread_id(Main)).success

\* the sum of the four tier counters
C33_TierSum ==
    standard_vote_count + initial_accelerated_vote_count + accelerated_vote_count
       + super_accelerated_vote_count

\* the records of the journal with that outcome
C33_Records(ok) ==
    IF journal.state = "ok"
       THEN {k \in 1..Len(journal.votes) : journal.votes[k].success = ok}
    ELSE {}

\* the threads past the counter update of their iteration (line 2698) with
\* that outcome, their record not yet written
C33_Updated(ok) ==
    {t \in Threads : pc[t] \in {"backoff_read", "log_read", "log"} /\ success[t] = ok}

\* C33: the tier counters sum to the number of iterations that succeeded and
\* have passed their counter update (recorded or not yet); a failed submission
\* adds nothing.  The sum never exceeds vote_count and equals it exactly when
\* no submission has failed and no thread holds an attempt number with its
\* counter update still to come.
C33_TierSumCountsSuccesses ==
    /\ C33_TierSum = Cardinality(C33_Records(TRUE)) + Cardinality(C33_Updated(TRUE))
    /\ C33_TierSum <= vote_count
    /\ (C33_TierSum = vote_count) <=>
          /\ C33_Records(FALSE) = {}
          /\ C33_Updated(FALSE) = {}
          /\ \A t \in Threads : pc[t] # "submit"

\* two attempts, one failed and recorded, nothing in flight: the sum is 1
C33_Witness ==
    /\ vote_count = 2
    /\ C33_Records(FALSE) # {}
    /\ C33_TierSum = 1
    /\ \A t \in Threads : ~InIteration(pc[t])

\* Main's backoff update after an iteration whose snapshot has the target
\* first and fewer than 2 entries
C34_SingleEntryUpdate ==
    /\ pc[Main] = "m_backoff" /\ pc'[Main] # "m_backoff"
    /\ results[Main] # << >> /\ cutler_ahead[Main] /\ Len(results[Main]) < 2

\* C34: a snapshot with the target first and fewer than 2 entries does not end
\* the run, whatever the multiplier: the lead is null and not above the
\* threshold, the update leaves the multiplier at 1.0, and Main goes on to its
\* pool scan.
C34_SingleEntryHandled ==
    [][C34_SingleEntryUpdate =>
          /\ get_cutler_lead_percentage(results[Main], lead_threshold) = <<None, FALSE>>
          /\ ~is_lead_high'
          /\ lead_backoff_multiplier' = Scale
          /\ pc'[Main] = "m_scan_read"]_vars

\* C34, as the code has it: the lead is null and not above the threshold and
\* the multiplier is left at 1.0; Main goes on to its pool scan when the
\* multiplier was 1.0, and leaves its loop through the exception handler when
\* the multiplier was above 1.0.
C34_SingleEntryEndsRunAboveOne ==
    [][C34_SingleEntryUpdate =>
          /\ get_cutler_lead_percentage(results[Main], lead_threshold) = <<None, FALSE>>
          /\ ~is_lead_high'
          /\ lead_backoff_multiplier' = Scale
          /\ pc'[Main] = (IF lead_backoff_multiplier > Scale THEN "finally"
                          ELSE "m_scan_read")]_vars

\* Main has left its loop without the shutdown flag, after a snapshot of one
\* entry reset the multiplier
C34_Witness ==
    /\ pc[Main] = "finally"
    /\ ~shutdown_flag
    /\ cutler_ahead[Main]
    /\ Len(results[Main]) = 1
    /\ lead_backoff_multiplier = Scale

\* Main has left its loop through the exception handler: the flag was never set
C35_Escaped == ~InMainLoop /\ ~shutdown_flag

\* C35: when an exception has ended Main's loop with the shutdown flag clear,
\* Main runs its finally block once and never re-enters the loop: every slot is
\* set inactive and stays so, the final statistics are read, and the worker is
\* gone by then or ends with the process.  A worker that finds its slot
\* inactive at its loop test leaves its loop, and a worker that has left its
\* loop starts no iteration.
C35_ExceptionShutsDown ==
    /\ C35_Escaped ~>
          (/\ pc[Main] = "done"
           /\ \A i \in 1..1 : ~_parallel_active[i])
    /\ [](C35_Escaped /\ pc[Main] # "finally" => \A i \in 1..1 : ~_parallel_active[i])
    /\ [][/\ ~InMainLoop => ~InMainLoop'
          /\ \A i \in 1..1 :
                /\ pc[i] = "a_loop" /\ ~_parallel_active[i] /\ pc'[i] # pc[i] =>
                      pc'[i] = "a_exit"
                /\ C35_Escaped /\ pc[i] \in {"a_exit", "a_done"} =>
                      pc'[i] \in {"a_exit", "a_done"}]_vars

\* the run has ended after an exception, the worker having found its slot
\* inactive and returned
C35_Witness ==
    /\ C35_Escaped
    /\ pc[Main] = "done"
    /\ pc[1] = "a_done"
    /\ ~_parallel_active[1]
    /\ vote_count > 1 + 1

\* the slots active after the scan are the first k of the slot sequence
C36_Prefix(active) ==
    \A i \in DOMAIN active : \A j \in DOMAIN active :
        (i < j /\ active[j]) => active[i]

\* a pool scan of a run without --force-parallel
C36_Scan == ScanStep /\ ~_force_parallel_mode

\* C36 as stated: at the end of every pool scan without --force-parallel, slot
\* i is active if and only if the count read for the scan is >= its threshold
\* and Main's iteration did not find the target first; the active slots form a
\* prefix; and no slot is active after a scan that follows a target-first
\* iteration.
C36_Original ==
    [][C36_Scan =>
          /\ \A i \in Slots :
                _parallel_active'[i] <=>
                   (current_behind_count >= C6_Threshold(i) /\ ~cutler_ahead[Main])
          /\ C36_Prefix(_parallel_active')
          /\ cutler_ahead[Main] => \A i \in Slots : ~_parallel_active'[i]]_vars

\* C36, what the scan does: the start of line 3213 is tested before the stops
\* of lines 3228 and 3232, so after a scan without --force-parallel slot i is
\* active if and only if the count read is >= its threshold and either Main's
\* iteration did not find the target first or the slot was inactive before the
\* scan.  After an iteration that did not find the target first the active
\* slots are those with a threshold <= the count, a prefix; after a
\* target-first iteration they are the slots this scan has started.
C36_StartBeforeStop ==
    [][C36_Scan =>
          /\ \A i \in Slots :
                _parallel_active'[i] <=>
                   /\ current_behind_count >= C6_Threshold(i)
                   /\ ~cutler_ahead[Main] \/ ~_parallel_active[i]
          /\ ~cutler_ahead[Main] => C36_Prefix(_parallel_active')]_vars

\* Main's iteration found the target first and reset the count; the worker of
\* slot 1 has stopped on a count below 20, twenty more workers have each added
\* one, and the scan, reading 20 or more, has started slot 1 again
C36_Witness ==
    /\ ~_force_parallel_mode
    /\ pc[Main] = "m_wait"
    /\ cutler_ahead[Main]
    /\ current_behind_count >= C6_Threshold(1)
    /\ _parallel_active[1]
    /\ pc[1] = "a_loop"

\* the step of Main in which the verification sampler is run or skipped
C37_SamplerStep == pc[Main] = "verify" /\ pc'[Main] # "verify"

\* what the timing and pool-scaling decisions read of Main's position and locals
C37_Controller ==
    <<counters, lead_backoff_multiplier, shutdown_flag, _parallel_active,
      _force_parallel_mode, main_locals, iter_locals, current_behind>>

\* C37: the verification sampler is purely observational.  The step that runs
\* it or skips it changes none of vote_count, consecutive_behind_count, the
\* tier counters, lead_backoff_multiplier and _parallel_active, nor anything
\* else the controller reads; Main goes on to line 3164 with the first-vote flag
\* set and the marker a function of the counts alone, whatever total the page
\* showed, whatever the verification file held and whether or not it could be
\* written; and no other step writes the verification file.
C37_Observational ==
    [][/\ C37_SamplerStep =>
             /\ UNCHANGED <<vote_count, consecutive_behind_count, tier_counts,
                            lead_backoff_multiplier, _parallel_active>>
             /\ UNCHANGED C37_Controller
             /\ pc' = [pc EXCEPT ![Main] = "m_delay"]
             /\ _first_vote_completed'
             /\ _last_verification_vote_count' =
                   VerificationMarker(vote_count, _last_verification_vote_count)
       /\ ~C37_SamplerStep => UNCHANGED verification]_vars

\* the sampler has written the second record of the session, at attempt 500,
\* while the worker's slot is active
C37_Witness ==
    /\ pc[Main] = "m_delay"
    /\ _parallel_active[1]
    /\ verification.state = "ok"
    /\ Len(verification.verification_records) = 2
    /\ verification.verification_records[2].our_vote_count = VerificationInterval

C38_Records(file) ==
    IF file.state = "ok" THEN Get(file, "verification_records", << >>) ELSE << >>

\* a call of log_vote_verification has written its record
C38_Written == verification' # verification

\* the record written, and the earlier records of this session
C38_New == C38_Records(verification')[Len(C38_Records(verification'))]

C38_Mine ==
    {k \in 1..Len(C38_Records(verification)) :
        C38_Records(verification)[k].session_id = _current_session_id}

C38_Previous ==
    C38_Records(verification)[CHOOSE k \in C38_Mine : \A j \in C38_Mine : j <= k]

\* floor(totalVotes * percentage / 100)
C38_Floor(rec) == (rec.total_votes_on_server * rec.cutler_percentage) \div 100

\* The record is appended to the records found.  The first record of a session
\* has the attempt count as expected increase and neither actual increase nor
\* effectiveness, whatever records of other sessions exist; a later one is
\* compared with the most recent earlier record of the session, and has an
\* effectiveness, actual / expected * 100 to the nearest hundredth, exactly
\* when the expected increase is > 0.
C38_SessionArithmetic ==
    LET rec == C38_New
    IN  /\ C38_Records(verification') = Append(C38_Records(verification), rec)
        /\ rec.session_id = _current_session_id
        /\ IF C38_Mine = {}
              THEN /\ rec.expected_vote_increase = rec.our_vote_count
                   /\ rec.actual_vote_increase = None
                   /\ rec.effectiveness_percentage = None
              ELSE /\ rec.expected_vote_increase =
                         rec.our_vote_count - C38_Previous.our_vote_count
                   /\ rec.actual_vote_increase =
                         Some(rec.cutler_vote_count_calculated
                                 - C38_Previous.cutler_vote_count_calculated)
                   /\ rec.effectiveness_percentage # None <=> rec.expected_vote_increase > 0
                   /\ rec.effectiveness_percentage # None =>
                         LET off == (rec.effectiveness_percentage[1] * rec.expected_vote_increase)
                                       - (10000 * rec.actual_vote_increase[1])
                         IN  /\ 2 * off <= rec.expected_vote_increase
                             /\ 2 * off >= 0 - rec.expected_vote_increase

\* C38 as stated: every record stores floor(total * percentage / 100), and the
\* increases and the effectiveness are computed from the most recent record of
\* the same session.
C38_Original ==
    [][C38_Written =>
          /\ C38_New.cutler_vote_count_calculated = C38_Floor(C38_New)
          /\ C38_SessionArithmetic]_vars

\* C38, what the code computes: the estimate is int(total * (percentage /
\* 100.0)) in floating point, which is floor(total * percentage / 100) or, for
\* some inputs whose exact product is a whole number, one less; the increases
\* and the effectiveness are computed from the estimates stored, as stated.
C38_EstimateWithinOne ==
    [][C38_Written =>
          /\ C38_New.cutler_vote_count_calculated \in
                {C38_Floor(C38_New), C38_Floor(C38_New) - 1}
          /\ C38_New.cutler_vote_count_calculated # C38_Floor(C38_New) =>
                (C38_New.total_votes_on_server * C38_New.cutler_percentage) % 100 = 0
          /\ C38_SessionArithmetic]_vars

\* after a record of an earlier session and the first record of this one, a
\* page with 180 votes and the target at 35 % has been recorded with 62 votes
\* for the target, and an effectiveness
C38_Witness ==
    /\ verification.state = "ok"
    /\ Len(C38_Records(verification)) = 3
    /\ C38_Records(verification)[2].session_id = EarlierSessionId
    /\ LET rec == C38_Records(verification)[3]
       IN  /\ rec.total_votes_on_server = 180
           /\ rec.cutler_percentage = 35
           /\ rec.cutler_vote_count_calculated = 62
           /\ rec.effectiveness_percentage # None

\* the records of the journal, in file order
C39_Votes == IF journal.state = "ok" THEN Get(journal, "votes", << >>) ELSE << >>

\* C39: in the journal the records of any one thread appear in strictly
\* increasing order of vote_number, and no two records of the session have the
\* same vote_number (records of different threads may be out of order).
C39_PerWorkerOrder ==
    \A j \in 1..Len(C39_Votes) : \A k \in 1..Len(C39_Votes) :
        j < k =>
           /\ C39_Votes[j].vote_number # C39_Votes[k].vote_number
           /\ C39_Votes[j].thread_id = C39_Votes[k].thread_id =>
                 C39_Votes[j].vote_number < C39_Votes[k].vote_number

\* Main took number 2 and the worker number 3; the worker's record was written
\* first, so the journal reads 1, 3, 2, with Main's two records in order
C39_Witness ==
    /\ Len(C39_Votes) = 3
    /\ C39_Votes[1].thread_id = "Main" /\ C39_Votes[1].vote_number = 1
    /\ C39_Votes[2].thread_id = "Parallel-1" /\ C39_Votes[2].vote_number = 3
    /\ C39_Votes[3].thread_id = "Main" /\ C39_Votes[3].vote_number = 2

\* the number of journal records that satisfy Test
C40_Count(Test(_)) == Cardinality({k \in 1..Len(C39_Votes) : Test(C39_Votes[k])})

C40_Succeeded(vote) == vote.success

C40_Flagged(vote) == vote.exponential_backoff

\* C40: in a journal that started absent, after any writes of any threads,
\* total_votes_submitted is the number of records with success true,
\* exponential_backoff_votes the number of records flagged, each tier field the
\* number of records of that tier, failed ones included, and so the four tier
\* fields sum to the number of records.
C40_SummaryCountsRecords ==
    journal.state = "ok" =>
       /\ journal.summary.total_votes_submitted = C40_Count(C40_Succeeded)
       /\ journal.summary.exponential_backoff_votes = C40_Count(C40_Flagged)
       /\ \A tier \in VoteTypes :
             journal.summary[TypeField(tier)] =
                Cardinality({k \in 1..Len(C39_Votes) : C39_Votes[k].vote_type = tier})
       /\ journal.summary.standard_votes + journal.summary.initial_accelerated_votes
             + journal.summary.accelerated_votes + journal.summary.super_accelerated_votes
             = Len(C39_Votes)

\* Main's first submission failed and the worker's succeeded: two records, one
\* vote submitted
C40_Witness ==
    /\ journal.state = "ok"
    /\ Len(C39_Votes) = 2
    /\ ~C39_Votes[1].success /\ C39_Votes[1].thread_id = "Main"
    /\ C39_Votes[2].success /\ C39_Votes[2].thread_id = "Parallel-1"
    /\ journal.summary.total_votes_submitted = 1

=============================================================================
